---- MODULE Spec2Model ----
(***************************************************************************)
(* Model of the inverter auxiliary controller firmware                      *)
(* (src/software/inverter.c, AT89C2051 / 8051).                             *)
(*                                                                          *)
(* The firmware is one main context plus the serial interrupt handler.      *)
(* It is modelled in layers, one specification per layer:                   *)
(*   SpecUart  the ring buffers, UART_ISR, UART_send and UART_read at       *)
(*             statement granularity, with the interrupt handler running    *)
(*             between any two main-context statements executed with        *)
(*             interrupts enabled;                                          *)
(*   SpecSup   start_inverter, stop_inverter and enough_power_drawn, one    *)
(*             step per loop statement, on top of the result of             *)
(*             LIN_read_response;                                           *)
(*   SpecPg    is_power_good over its battery samples;                      *)
(*   SpecFrame LIN_send_request and LIN_send_data, the bytes handed to      *)
(*             UART_send;                                                   *)
(*   SpecErr   show_error, one step per statement;                          *)
(*   SpecRead  LIN_read_response over UART_read and the receive handler,    *)
(*             and SpecReadLive, the same against a peer that never stops   *)
(*             transmitting, with fairness;                                 *)
(*   SpecSleep the unplugged branch of main() with the plug interrupt, the  *)
(*             idle sleep and the transmit side of the serial transport,    *)
(*             with fairness;                                               *)
(*   Spec      the control loop of main().                                  *)
(***************************************************************************)
EXTENDS Integers, Sequences, FiniteSets, TLC

VARIABLES
    \* ---- serial transport (lines 53-63 and the 8051 serial registers)
    rcv_buff, tr_buff,
    buffered_rcv, rcv_read_pos, rcv_write_pos,
    buffered_tr, tr_armed, tr_read_pos, tr_write_pos,
    EA, ES, TI, RI,
    SBUF,        \* receive register: the byte last received
    txShift,     \* transmit shift register: the byte on the wire, or NoByte
    upc,         \* position of the main context in UART_send / UART_read
    u_data,      \* UART_send: the argument
    u_full,      \* UART_send: the test of line 101 found the buffer full
    u_tmp,       \* the register holding a counter between its load and store
    u_read,      \* UART_read: the local of line 122
    rxCount,     \* bytes the receiver has latched so far
    txCount,     \* calls of UART_send so far
    gRxQ, gTxQ,        \* bytes accepted and not yet dequeued, oldest first
    gRxFifo, gTxFifo,  \* every byte dequeued so far was the oldest accepted
    gRxDrop            \* the handler has found the receive buffer full

rxvars == <<rcv_buff, buffered_rcv, rcv_read_pos, rcv_write_pos>>
txvars == <<tr_buff, buffered_tr, tr_read_pos, tr_write_pos>>
hwvars == <<EA, ES, TI, RI, SBUF, txShift, tr_armed>>
locals == <<u_data, u_full, u_tmp, u_read>>
ghosts == <<gRxQ, gTxQ, gRxFifo, gTxFifo, gRxDrop>>
uvars == <<rxvars, txvars, hwvars, upc, locals, rxCount, txCount, ghosts>>

VARIABLES
    \* ---- is_power_good (lines 182-190)
    gpc,            \* position in is_power_good
    g_i,            \* the loop counter
    undervoltages,
    g_ret,          \* the value returned
    gSamples        \* history: the P_GOOD samples taken by this call

pgvars == <<gpc, g_i, undervoltages, g_ret, gSamples>>

VARIABLES
    \* ---- control loop of main() (lines 305-364)
    mpc,            \* position in main
    no_load_counter, prev_was_load, low_batt_counter, drawn_power_detect,
    status,         \* line 327
    gConsecFails,   \* history: is_power_good() failures in a row
    gLoadSeen,      \* history: the iteration before this one made a load
                    \* check and it found load
    gDelayed,       \* history: this iteration inserted the delay of line 334
    gTop,           \* history: no_load_counter when this iteration began
    gStop           \* history: the last stop_inverter call of the loop,
                    \* "soft" (false), "hard" (true) or "none"

mghosts == <<gLoadSeen, gDelayed, gTop, gStop>>
mvars == <<mpc, no_load_counter, prev_was_load, low_batt_counter,
           drawn_power_detect, status, gConsecFails, mghosts>>

VARIABLES
    \* ---- start_inverter, stop_inverter, enough_power_drawn (lines 199-273)
    spc,            \* position in the running function, or "idle"
    s_i, s_j, s_k,  \* the loop counters
    no_resp, PGOOD_fail,   \* lines 208-209
    cut_power,      \* stop_inverter: the argument
    power_sum,      \* line 262
    resp_buff,      \* line 66
    st_ret,         \* start_inverter: the value returned
    ep_ret,         \* enough_power_drawn: the value returned
    POW_5V,         \* input: the auxiliary rail
    EN_OV,          \* output: power cut
    \* history of the running call
    gRailAtEntry,   \* POW_5V when the call began
    gWakeups,       \* calls of LIN_wakeup
    gCmdFrames,     \* command frames (id 0x3A) sent
    gStatusReqs,    \* status requests (id 0x3B) sent
    gPeer,          \* what the peer answered: one class on every poll, or "mixed"
    gAnyResp,       \* some poll received at least one byte
    gAnyAckNoPg,    \* some poll received acknowledged without power-good
    gConfirmed,     \* stop_inverter passed the tests of lines 241-243
    gFreshConfirm,  \* some response carried the marker and a cleared ack flag
    gPulses,        \* pulses of EN_OV
    gWaits,         \* 1 s delays of the loop of line 255
    gExit,          \* stop_inverter: the return taken
    gValid,         \* enough_power_drawn: polls answered by a valid,
                    \* acknowledged response with a nonzero power field
    gStale          \* a response of fewer than 4 bytes has passed the
                    \* tests of lines 241-243 or of line 267

slocals == <<s_i, s_j, s_k, no_resp, PGOOD_fail, cut_power, power_sum,
             st_ret, ep_ret>>
sghosts == <<gRailAtEntry, gWakeups, gCmdFrames, gStatusReqs, gPeer,
             gAnyResp, gAnyAckNoPg, gConfirmed, gFreshConfirm, gPulses,
             gWaits, gExit, gValid, gStale>>
svars == <<spc, slocals, resp_buff, POW_5V, EN_OV, sghosts>>

VARIABLES
    \* ---- LIN_send_request and LIN_send_data (lines 141-165)
    fpc,            \* position in the frame being sent, or "idle"
    f_ID,           \* LIN_send_request: the argument
    ID_word,        \* line 151
    f_data,         \* LIN_send_data: the bytes data[0..len-1]
    f_i,            \* line 159
    checksum,       \* line 158, a 16-bit word
    gHanded,        \* history: the arguments of the calls of UART_send
    gCmd            \* history: the caller's frame: the command "start" or
                    \* "stop", the status "request", or "any" payload

fvars == <<fpc, f_ID, ID_word, f_data, f_i, checksum, gHanded, gCmd>>

VARIABLES
    \* ---- show_error (lines 282-291)
    epc,            \* position in show_error, or "idle"
    err_code,       \* the argument, shifted at line 287
    e_i,            \* line 284
    LED_OV,         \* output: the indicator
    gCode,          \* history: the argument at entry
    gRailSeen,      \* history: POW_5V as read at line 283
    gWoke,          \* history: LIN_wakeup was called
    gBlinks         \* history: <<LED_OV, milliseconds>> of each delay

evars == <<epc, err_code, e_i, LED_OV, gCode, gRailSeen, gWoke, gBlinks>>

VARIABLES
    \* ---- LIN_read_response (lines 167-180), called with dest = resp_buff
    rpc,            \* position in LIN_read_response, or "idle"
    r_i,            \* line 168
    read_bytes,     \* line 173
    r_ret,          \* the value returned
    gEmptyPolls,    \* history: tests of line 170 that found no byte
    gDeq,           \* history: the first bytes UART_read returned to this call
    gOverrun        \* history: line 176 has written past the end of dest

rvars == <<rpc, r_i, read_bytes, r_ret, gEmptyPolls, gDeq, gOverrun>>

VARIABLES
    \* ---- the unplugged branch of main() and the plug interrupt
    \*      (lines 68-70, 192-197 and 358-363)
    zpc,            \* position of the main context in the loop, or "off"
    PLUG,           \* input: something is plugged (P3_2 low)
    IE0,            \* the latch of the external interrupt 0
    zticks,         \* byte times elapsed in the running delay
    zSeen,          \* the byte that was on the wire one byte time ago
    gWoken,         \* history: the main context has slept and woken
    gTxBefore       \* history: bytes had been sent when it went to sleep

zvars == <<zpc, PLUG, IE0, zticks, zSeen, gWoken, gTxBefore>>

vars == <<uvars, pgvars, mvars, svars, fvars, evars, rvars, zvars>>

nonUart == <<pgvars, mvars, svars, fvars, evars, rvars, zvars>>
nonPg == <<uvars, mvars, svars, fvars, evars, rvars, zvars>>
nonMain == <<uvars, pgvars, svars, fvars, evars, rvars, zvars>>
nonSup == <<uvars, pgvars, mvars, fvars, evars, rvars, zvars>>
nonFrame == <<uvars, pgvars, mvars, svars, evars, rvars, zvars>>
nonErr == <<uvars, pgvars, mvars, svars, fvars, rvars, zvars>>
nonRead == <<pgvars, mvars, fvars, evars, zvars>>
nonSleep == <<pgvars, mvars, svars, fvars, evars, rvars>>

----------------------------------------------------------------------------
(* Program constants *)

RCV_BUFF_SIZE_EXP == 3
TR_BUFF_SIZE_EXP == 3
RCV_BUFF_SIZE == 2 ^ RCV_BUFF_SIZE_EXP
TR_BUFF_SIZE == 2 ^ TR_BUFF_SIZE_EXP

\* x & (size - 1) for a power-of-two size
RCV_BUFF_MASK(x) == x % RCV_BUFF_SIZE
TR_BUFF_MASK(x) == x % TR_BUFF_SIZE

ByteWrap(x) == x % 256

NoByte == -1

(* Bounds of the model *)
MaxRxBytes == 10    \* bytes the receiver latches in a run
MaxTxBytes == 10    \* calls of UART_send in a run

----------------------------------------------------------------------------
(* Serial transport: initial state, after main() line 311 *)

UInit ==
    /\ rcv_buff = [x \in 0..(RCV_BUFF_SIZE - 1) |-> 0]
    /\ tr_buff = [x \in 0..(TR_BUFF_SIZE - 1) |-> 0]
    /\ buffered_rcv = 0 /\ rcv_read_pos = 0 /\ rcv_write_pos = 0
    /\ buffered_tr = 0 /\ tr_armed = FALSE
    /\ tr_read_pos = 0 /\ tr_write_pos = 0
    /\ EA = TRUE /\ ES = TRUE /\ TI = FALSE /\ RI = FALSE
    /\ SBUF = 0 /\ txShift = NoByte
    /\ upc = "idle" /\ u_data = 0 /\ u_full = FALSE /\ u_tmp = 0 /\ u_read = 0
    /\ rxCount = 0 /\ txCount = 0
    /\ gRxQ = <<>> /\ gTxQ = <<>> /\ gRxFifo = TRUE /\ gTxFifo = TRUE
    /\ gRxDrop = FALSE

(* The serial interrupt is taken before the next main-context statement
   whenever it is enabled and a flag is pending (the 8051 samples the flags
   every machine cycle; a byte time is over a hundred machine cycles). *)
IsrPending == EA /\ ES /\ (RI \/ TI)

(* The receiver completes a byte. The 8051 loads SBUF and sets RI only when
   RI is clear: a byte completed while RI is still set is lost in the
   hardware and leaves no trace. Reception does not depend on ES. The k-th
   byte latched carries the value k, so that order is observable; the code
   never looks at a buffered value. *)
HwReceive ==
    /\ ~IsrPending
    /\ ~RI
    /\ rxCount < MaxRxBytes
    /\ rxCount' = rxCount + 1
    /\ SBUF' = ByteWrap(rxCount + 1)
    /\ RI' = TRUE
    /\ UNCHANGED <<rxvars, txvars, EA, ES, TI, txShift, tr_armed, upc, locals,
                   txCount, ghosts>>
    /\ UNCHANGED nonUart

(* The transmitter has shifted the byte out: TI is set by the hardware. *)
HwTransmitDone ==
    /\ ~IsrPending
    /\ txShift # NoByte
    /\ txShift' = NoByte
    /\ TI' = TRUE
    /\ UNCHANGED <<rxvars, txvars, EA, ES, RI, SBUF, tr_armed, upc, locals,
                   rxCount, txCount, ghosts>>
    /\ UNCHANGED nonUart

(* UART_ISR, lines 72-90. The handler cannot be preempted by the main
   context, so it is one step. *)
\* mutation: the test of line 75 off by one
ISR_rcv_has_room_off_by_one == buffered_rcv <= RCV_BUFF_SIZE

ISR_rcv_has_room == buffered_rcv < RCV_BUFF_SIZE        \* line 75

ISR_rcv_next_wpos == RCV_BUFF_MASK(rcv_write_pos + 1)   \* line 78

ISR_tr_next_rpos == TR_BUFF_MASK(tr_read_pos + 1)       \* line 86

UART_ISR ==
    /\ IsrPending
    /\ IF RI
         THEN /\ RI' = FALSE
              /\ gRxDrop' = (gRxDrop \/ ~(buffered_rcv < RCV_BUFF_SIZE))
              /\ IF ISR_rcv_has_room
                   THEN /\ rcv_buff' = [rcv_buff EXCEPT ![rcv_write_pos] = SBUF]
                        /\ buffered_rcv' = ByteWrap(buffered_rcv + 1)
                        /\ rcv_write_pos' = ISR_rcv_next_wpos
                        /\ gRxQ' = Append(gRxQ, SBUF)
                   ELSE UNCHANGED <<rcv_buff, buffered_rcv, rcv_write_pos, gRxQ>>
         ELSE UNCHANGED <<RI, rcv_buff, buffered_rcv, rcv_write_pos, gRxQ,
                          gRxDrop>>
    /\ IF TI
         THEN /\ TI' = FALSE
              /\ IF buffered_tr > 0
                   THEN /\ txShift' = tr_buff[tr_read_pos]
                        /\ buffered_tr' = buffered_tr - 1
                        /\ tr_read_pos' = ISR_tr_next_rpos
                        /\ gTxFifo' = (gTxFifo /\ gTxQ # <<>>
                                         /\ tr_buff[tr_read_pos] = Head(gTxQ))
                        /\ gTxQ' = IF gTxQ = <<>> THEN gTxQ ELSE Tail(gTxQ)
                        /\ UNCHANGED tr_armed
                   ELSE /\ tr_armed' = FALSE
                        /\ UNCHANGED <<txShift, buffered_tr, tr_read_pos,
                                       gTxQ, gTxFifo>>
         ELSE UNCHANGED <<TI, txShift, buffered_tr, tr_read_pos, gTxQ,
                          gTxFifo, tr_armed>>
    /\ UNCHANGED <<rcv_read_pos, tr_buff, tr_write_pos, EA, ES, SBUF, upc,
                   locals, rxCount, txCount, gRxFifo>>
    /\ UNCHANGED nonUart

----------------------------------------------------------------------------
(* UART_send, lines 99-118, one step per statement; a counter update is a
   load followed by a store. *)

UART_send_call ==
    /\ upc = "idle" /\ ~IsrPending
    /\ txCount < MaxTxBytes
    /\ txCount' = txCount + 1
    /\ u_data' = ByteWrap(txCount + 1)
    /\ upc' = "send_cli"
    /\ UNCHANGED <<rxvars, txvars, hwvars, u_full, u_tmp, u_read,
                   rxCount, ghosts>>
    /\ UNCHANGED nonUart

send_cli == FALSE   \* line 100: EA after cli()

UART_send_cli ==
    /\ upc = "send_cli" /\ ~IsrPending
    /\ EA' = send_cli
    /\ upc' = "send_chk"
    /\ UNCHANGED <<rxvars, txvars, ES, TI, RI, SBUF, txShift, tr_armed,
                   locals, rxCount, txCount, ghosts>>
    /\ UNCHANGED nonUart

send_has_room == buffered_tr < TR_BUFF_SIZE   \* line 101

UART_send_chk ==
    /\ upc = "send_chk" /\ ~IsrPending
    /\ u_full' = ~(buffered_tr < TR_BUFF_SIZE)
    /\ upc' = IF send_has_room THEN "send_store" ELSE "send_arm"
    /\ UNCHANGED <<rxvars, txvars, hwvars, u_data, u_tmp, u_read,
                   rxCount, txCount, ghosts>>
    /\ UNCHANGED nonUart

UART_send_store ==
    /\ upc = "send_store" /\ ~IsrPending
    /\ tr_buff' = [tr_buff EXCEPT ![tr_write_pos] = u_data]
    /\ upc' = "send_wpos"
    /\ UNCHANGED <<rxvars, buffered_tr, tr_read_pos, tr_write_pos, hwvars,
                   locals, rxCount, txCount, ghosts>>
    /\ UNCHANGED nonUart

send_next_wpos == TR_BUFF_MASK(tr_write_pos + 1)   \* line 103

UART_send_wpos ==
    /\ upc = "send_wpos" /\ ~IsrPending
    /\ tr_write_pos' = send_next_wpos
    /\ upc' = "send_ld"
    /\ UNCHANGED <<rxvars, tr_buff, buffered_tr, tr_read_pos, hwvars,
                   locals, rxCount, txCount, ghosts>>
    /\ UNCHANGED nonUart

UART_send_ld ==
    /\ upc = "send_ld" /\ ~IsrPending
    /\ u_tmp' = buffered_tr
    /\ upc' = "send_inc"
    /\ UNCHANGED <<rxvars, txvars, hwvars, u_data, u_full, u_read,
                   rxCount, txCount, ghosts>>
    /\ UNCHANGED nonUart

UART_send_inc ==
    /\ upc = "send_inc" /\ ~IsrPending
    /\ buffered_tr' = ByteWrap(u_tmp + 1)
    /\ gTxQ' = Append(gTxQ, u_data)
    /\ upc' = "send_arm"
    /\ UNCHANGED <<rxvars, tr_buff, tr_read_pos, tr_write_pos, hwvars,
                   locals, rxCount, txCount, gRxQ, gRxFifo, gTxFifo, gRxDrop>>
    /\ UNCHANGED nonUart

(* lines 106-111 *)
UART_send_arm ==
    /\ upc = "send_arm" /\ ~IsrPending
    /\ IF ~tr_armed
         THEN TI' = TRUE /\ tr_armed' = TRUE /\ upc' = "send_sei"
         ELSE /\ UNCHANGED <<TI, tr_armed>>
              /\ upc' = IF buffered_tr = TR_BUFF_SIZE THEN "send_wait"
                                                      ELSE "send_sei"
    /\ UNCHANGED <<rxvars, txvars, EA, ES, RI, SBUF, txShift, locals,
                   rxCount, txCount, ghosts>>
    /\ UNCHANGED nonUart

(* lines 111-115: the loop ends when TI is seen set or when iter_limit has
   counted down from 0xFF to 0 with TI still clear; its body changes
   nothing else. The hardware may complete a byte while it runs. *)
UART_send_wait ==
    /\ upc = "send_wait" /\ ~IsrPending
    /\ upc' = "send_sei"
    /\ UNCHANGED <<rxvars, txvars, hwvars, locals, rxCount, txCount, ghosts>>
    /\ UNCHANGED nonUart

(* lines 116-118: sei(), then delay(1), during which only the hardware and
   the handler act; the locals die at the return *)
UART_send_sei ==
    /\ upc = "send_sei" /\ ~IsrPending
    /\ EA' = TRUE
    /\ upc' = "idle"
    /\ u_data' = 0 /\ u_full' = FALSE /\ u_tmp' = 0
    /\ UNCHANGED <<rxvars, txvars, ES, TI, RI, SBUF, txShift, tr_armed,
                   u_read, rxCount, txCount, ghosts>>
    /\ UNCHANGED nonUart

----------------------------------------------------------------------------
(* UART_read, lines 120-130 *)

UART_read_call ==
    /\ upc = "idle" /\ ~IsrPending
    /\ upc' = "read_cli"
    /\ UNCHANGED <<rxvars, txvars, hwvars, locals, rxCount, txCount, ghosts>>
    /\ UNCHANGED nonUart

\* mutation: line 121 without cli()
read_cli_missing == EA

read_cli == FALSE   \* line 121: EA after cli()

UART_read_cli ==
    /\ upc = "read_cli" /\ ~IsrPending
    /\ EA' = read_cli
    /\ u_read' = 0
    /\ upc' = "read_chk"
    /\ UNCHANGED <<rxvars, txvars, ES, TI, RI, SBUF, txShift, tr_armed,
                   u_data, u_full, u_tmp, rxCount, txCount, ghosts>>
    /\ UNCHANGED nonUart

UART_read_chk ==
    /\ upc = "read_chk" /\ ~IsrPending
    /\ upc' = IF buffered_rcv > 0 THEN "read_load" ELSE "read_sei"
    /\ UNCHANGED <<rxvars, txvars, hwvars, locals, rxCount, txCount, ghosts>>
    /\ UNCHANGED nonUart

UART_read_load ==
    /\ upc = "read_load" /\ ~IsrPending
    /\ u_read' = rcv_buff[rcv_read_pos]
    /\ gRxFifo' = (gRxFifo /\ gRxQ # <<>> /\ rcv_buff[rcv_read_pos] = Head(gRxQ))
    /\ gRxQ' = IF gRxQ = <<>> THEN gRxQ ELSE Tail(gRxQ)
    /\ upc' = "read_rpos"
    /\ UNCHANGED <<rxvars, txvars, hwvars, u_data, u_full, u_tmp,
                   rxCount, txCount, gTxQ, gTxFifo, gRxDrop>>
    /\ UNCHANGED nonUart

read_next_rpos == RCV_BUFF_MASK(rcv_read_pos + 1)   \* line 125

UART_read_rpos ==
    /\ upc = "read_rpos" /\ ~IsrPending
    /\ rcv_read_pos' = read_next_rpos
    /\ upc' = "read_ld"
    /\ UNCHANGED <<rcv_buff, buffered_rcv, rcv_write_pos, txvars, hwvars,
                   locals, rxCount, txCount, ghosts>>
    /\ UNCHANGED nonUart

UART_read_ld ==
    /\ upc = "read_ld" /\ ~IsrPending
    /\ u_tmp' = buffered_rcv
    /\ upc' = "read_dec"
    /\ UNCHANGED <<rxvars, txvars, hwvars, u_data, u_full, u_read,
                   rxCount, txCount, ghosts>>
    /\ UNCHANGED nonUart

UART_read_dec ==
    /\ upc = "read_dec" /\ ~IsrPending
    /\ buffered_rcv' = ByteWrap(u_tmp + 255)
    /\ upc' = "read_sei"
    /\ UNCHANGED <<rcv_buff, rcv_read_pos, rcv_write_pos, txvars, hwvars,
                   locals, rxCount, txCount, ghosts>>
    /\ UNCHANGED nonUart

(* lines 128-129; the caller consumes the value returned *)
UART_read_sei ==
    /\ upc = "read_sei" /\ ~IsrPending
    /\ EA' = TRUE
    /\ upc' = "idle"
    /\ u_read' = 0 /\ u_tmp' = 0
    /\ UNCHANGED <<rxvars, txvars, ES, TI, RI, SBUF, txShift, tr_armed,
                   u_data, u_full, rxCount, txCount, ghosts>>
    /\ UNCHANGED nonUart

----------------------------------------------------------------------------
UNext ==
    \/ HwReceive \/ HwTransmitDone \/ UART_ISR
    \/ UART_send_call \/ UART_send_cli \/ UART_send_chk \/ UART_send_store
    \/ UART_send_wpos \/ UART_send_ld \/ UART_send_inc \/ UART_send_arm
    \/ UART_send_wait \/ UART_send_sei
    \/ UART_read_call \/ UART_read_cli \/ UART_read_chk \/ UART_read_load
    \/ UART_read_rpos \/ UART_read_ld \/ UART_read_dec \/ UART_read_sei

----------------------------------------------------------------------------
(* is_power_good, lines 182-190: one step per loop iteration. P_GOOD is an
   input pin: each sample is any value. *)

PG_SAMPLES == 10   \* line 184
PG_LIMIT == 5      \* line 186

PgIdle ==
    /\ gpc = "idle" /\ g_i = 0 /\ undervoltages = 0 /\ g_ret = TRUE
    /\ gSamples = <<>>

is_power_good_call ==
    /\ gpc = "idle"
    /\ gpc' = "loop"
    /\ g_i' = 0 /\ undervoltages' = 0 /\ gSamples' = <<>>
    /\ UNCHANGED g_ret
    /\ UNCHANGED nonPg

pg_loop_continues == g_i < PG_SAMPLES               \* line 184

\* mutation: line 186 with > for >=
pg_limit_reached_late(uv) == uv > PG_LIMIT

pg_limit_reached(uv) == uv >= PG_LIMIT              \* line 186

(* lines 184-188: one iteration, or the exit of the loop at line 189 *)
is_power_good_step ==
    /\ gpc = "loop"
    /\ IF pg_loop_continues
         THEN \E P_GOOD \in BOOLEAN :
                LET uv == ByteWrap(undervoltages + (IF P_GOOD THEN 0 ELSE 1))
                IN /\ undervoltages' = uv
                   /\ gSamples' = Append(gSamples, P_GOOD)
                   /\ IF pg_limit_reached(uv)
                        THEN g_ret' = FALSE /\ gpc' = "done" /\ UNCHANGED g_i
                        ELSE g_i' = g_i + 1 /\ UNCHANGED <<g_ret, gpc>>
         ELSE /\ g_ret' = TRUE /\ gpc' = "done"
              /\ UNCHANGED <<g_i, undervoltages, gSamples>>
    /\ UNCHANGED nonPg

is_power_good_return ==
    /\ gpc = "done"
    /\ gpc' = "idle"
    /\ g_i' = 0 /\ undervoltages' = 0 /\ gSamples' = <<>> /\ g_ret' = TRUE
    /\ UNCHANGED nonPg

PgNext == is_power_good_call \/ is_power_good_step \/ is_power_good_return

----------------------------------------------------------------------------
(* Error codes, lines 45-49 *)

WAKEUP_ERROR == 1
RESP_ERROR == 2
STARTUP_ERROR == 3
PGOOD_ERROR == 4
LOW_BATT_ERR == 5

----------------------------------------------------------------------------
(* The control loop of main(), lines 305-364. A call of is_power_good,
   start_inverter or enough_power_drawn yields any of the values the
   function can return; stop_inverter, show_error, LIN_wakeup and
   wait_if_plugged change nothing the loop reads. *)

LOW_BATT_LIMIT == 5      \* line 317
NO_LOAD_LIMIT == 60      \* line 337
KEEPALIVE_FROM == 20     \* line 345

\* lines 192-197, on the two samples of PLUG
anything_plugged(plug1, plug2) ==
    IF ~plug1 THEN FALSE ELSE IF ~plug2 THEN FALSE ELSE TRUE

StartResults == {0, WAKEUP_ERROR, RESP_ERROR, STARTUP_ERROR, PGOOD_ERROR}

\* lines 305-311
MInit ==
    /\ mpc = "loop"
    /\ no_load_counter = 0 /\ prev_was_load = FALSE /\ low_batt_counter = 0
    /\ \E plug1, plug2 \in BOOLEAN :
          drawn_power_detect = anything_plugged(plug1, plug2)
    /\ status = 0
    /\ gConsecFails = 0
    /\ gLoadSeen = FALSE /\ gDelayed = FALSE /\ gTop = 0 /\ gStop = "none"

MIdle ==
    /\ mpc = "loop"
    /\ no_load_counter = 0 /\ prev_was_load = FALSE /\ low_batt_counter = 0
    /\ drawn_power_detect = FALSE
    /\ status = 0
    /\ gConsecFails = 0
    /\ gLoadSeen = FALSE /\ gDelayed = FALSE /\ gTop = 0 /\ gStop = "none"

\* line 324: the counter after an iteration that found the battery good
low_batt_reset == 0

(* lines 313 and 324 *)
main_check_battery ==
    /\ mpc = "loop"
    /\ \E good \in BOOLEAN :
         IF ~good
           THEN /\ mpc' = "lb_stop"
                /\ gConsecFails' = gConsecFails + 1
                /\ UNCHANGED low_batt_counter
           ELSE /\ low_batt_counter' = low_batt_reset
                /\ gConsecFails' = 0
                /\ mpc' = "plug"
    /\ UNCHANGED <<no_load_counter, prev_was_load, drawn_power_detect, status>>
    /\ gTop' = no_load_counter
    /\ gDelayed' = FALSE
    /\ gLoadSeen' = (gLoadSeen /\ mpc' = "plug")
    /\ UNCHANGED gStop
    /\ UNCHANGED nonMain

(* lines 314-316: stop_inverter(true); delay(250); show_error(LOW_BATT_ERR) *)
main_lowbatt_stop ==
    /\ mpc = "lb_stop"
    /\ mpc' = "lb_count"
    /\ UNCHANGED <<no_load_counter, prev_was_load, low_batt_counter,
                   drawn_power_detect, status, gConsecFails>>
    /\ gStop' = "hard"
    /\ UNCHANGED <<gLoadSeen, gDelayed, gTop>>
    /\ UNCHANGED nonMain

\* mutation: line 317 with the limit one too low
low_batt_limit_reached_early(c) == c >= LOW_BATT_LIMIT - 1

low_batt_limit_reached(c) == c >= LOW_BATT_LIMIT    \* line 317

(* lines 317-320: power-down, from which only a reset returns *)
main_lowbatt_count ==
    /\ mpc = "lb_count"
    /\ low_batt_counter' = ByteWrap(low_batt_counter + 1)
    /\ mpc' = IF low_batt_limit_reached(low_batt_counter') THEN "power_down"
                                                            ELSE "lb_wait"
    /\ UNCHANGED <<no_load_counter, prev_was_load, drawn_power_detect, status,
                   gConsecFails>>
    /\ UNCHANGED mghosts
    /\ UNCHANGED nonMain

(* lines 321-322: wait_if_plugged(30); continue *)
main_lowbatt_wait ==
    /\ mpc = "lb_wait"
    /\ mpc' = "loop"
    /\ UNCHANGED <<no_load_counter, prev_was_load, low_batt_counter,
                   drawn_power_detect, status, gConsecFails>>
    /\ UNCHANGED mghosts
    /\ UNCHANGED nonMain

(* line 326 *)
main_check_plug ==
    /\ mpc = "plug"
    /\ \E plug1, plug2 \in BOOLEAN :
         mpc' = IF anything_plugged(plug1, plug2) THEN "start" ELSE "unplugged"
    /\ UNCHANGED <<no_load_counter, prev_was_load, low_batt_counter,
                   drawn_power_detect, status, gConsecFails>>
    /\ gLoadSeen' = (gLoadSeen /\ mpc' = "start")
    /\ UNCHANGED <<gDelayed, gTop, gStop>>
    /\ UNCHANGED nonMain

(* lines 327, 328 and 333 *)
main_start ==
    /\ mpc = "start"
    /\ \E st \in StartResults :
         /\ status' = st
         /\ mpc' = IF st # 0 THEN "start_failed"
                   ELSE IF drawn_power_detect THEN "inrush" ELSE "loop"
    /\ UNCHANGED <<no_load_counter, prev_was_load, low_batt_counter,
                   drawn_power_detect, gConsecFails>>
    /\ gLoadSeen' = (gLoadSeen /\ mpc' = "inrush")
    /\ UNCHANGED <<gDelayed, gTop, gStop>>
    /\ UNCHANGED nonMain

(* lines 329-331: stop_inverter(true); show_error(status);
   wait_if_plugged(150 or 15) *)
main_start_failed ==
    /\ mpc = "start_failed"
    /\ mpc' = "loop"
    /\ UNCHANGED <<no_load_counter, prev_was_load, low_batt_counter,
                   drawn_power_detect, status, gConsecFails>>
    /\ gStop' = "hard"
    /\ UNCHANGED <<gLoadSeen, gDelayed, gTop>>
    /\ UNCHANGED nonMain

inrush_delay_due == ~prev_was_load      \* line 334

(* line 334: if(!prev_was_load) delay(200) *)
main_inrush ==
    /\ mpc = "inrush"
    /\ mpc' = "load"
    /\ UNCHANGED <<no_load_counter, prev_was_load, low_batt_counter,
                   drawn_power_detect, status, gConsecFails>>
    /\ gDelayed' = inrush_delay_due
    /\ UNCHANGED <<gLoadSeen, gTop, gStop>>
    /\ UNCHANGED nonMain

\* mutation: line 337 with > for >=
noload_limit_reached_late(c) == c > NO_LOAD_LIMIT

noload_limit_reached(c) == c >= NO_LOAD_LIMIT      \* line 337

(* lines 335, 337 and 352-355 *)
main_check_load ==
    /\ mpc = "load"
    /\ \E enough \in BOOLEAN :
         IF ~enough
           THEN /\ mpc' = IF noload_limit_reached(no_load_counter)
                             THEN "nl_long" ELSE "nl_short"
                /\ UNCHANGED <<no_load_counter, prev_was_load>>
           ELSE /\ mpc' = "loop"
                /\ IF no_load_counter > 0
                     THEN IF prev_was_load
                            THEN /\ no_load_counter' = no_load_counter - 1
                                 /\ UNCHANGED prev_was_load
                            ELSE /\ prev_was_load' = TRUE
                                 /\ UNCHANGED no_load_counter
                     ELSE UNCHANGED <<no_load_counter, prev_was_load>>
    /\ UNCHANGED <<low_batt_counter, drawn_power_detect, status, gConsecFails>>
    /\ gLoadSeen' = (mpc' = "loop")
    /\ UNCHANGED <<gDelayed, gTop, gStop>>
    /\ UNCHANGED nonMain

(* lines 338-339 and 350: stop_inverter(true); wait_if_plugged(133) *)
main_noload_long ==
    /\ mpc = "nl_long"
    /\ prev_was_load' = FALSE
    /\ mpc' = "loop"
    /\ UNCHANGED <<no_load_counter, low_batt_counter, drawn_power_detect,
                   status, gConsecFails>>
    /\ gStop' = "hard"
    /\ UNCHANGED <<gLoadSeen, gDelayed, gTop>>
    /\ UNCHANGED nonMain

(* lines 342-344: stop_inverter(false); no_load_counter++;
   wait_if_plugged(18) *)
main_noload_short ==
    /\ mpc = "nl_short"
    /\ no_load_counter' = ByteWrap(no_load_counter + 1)
    /\ mpc' = "nl_keepalive"
    /\ UNCHANGED <<prev_was_load, low_batt_counter, drawn_power_detect,
                   status, gConsecFails>>
    /\ gStop' = "soft"
    /\ UNCHANGED <<gLoadSeen, gDelayed, gTop>>
    /\ UNCHANGED nonMain

\* mutation: line 345 with > for >=
keepalive_due_late(c) == c > KEEPALIVE_FROM

keepalive_due(c) == c >= KEEPALIVE_FROM      \* line 345

(* lines 345 and 350: the test of no_load_counter; without the wake-up the
   branch ends with prev_was_load = false *)
main_noload_keepalive ==
    /\ mpc = "nl_keepalive"
    /\ IF keepalive_due(no_load_counter)
         THEN mpc' = "nl_wakeup" /\ UNCHANGED prev_was_load
         ELSE mpc' = "loop" /\ prev_was_load' = FALSE
    /\ UNCHANGED <<no_load_counter, low_batt_counter, drawn_power_detect,
                   status, gConsecFails>>
    /\ UNCHANGED mghosts
    /\ UNCHANGED nonMain

(* lines 346-347 and 350: LIN_wakeup(); wait_if_plugged(30);
   prev_was_load = false *)
main_noload_wakeup ==
    /\ mpc = "nl_wakeup"
    /\ prev_was_load' = FALSE
    /\ mpc' = "loop"
    /\ UNCHANGED <<no_load_counter, low_batt_counter, drawn_power_detect,
                   status, gConsecFails>>
    /\ UNCHANGED mghosts
    /\ UNCHANGED nonMain

(* lines 359-360: stop_inverter(true); UART_INT_DIS(); ENTER_IDLE() *)
main_unplugged ==
    /\ mpc = "unplugged"
    /\ mpc' = "sleep"
    /\ UNCHANGED <<no_load_counter, prev_was_load, low_batt_counter,
                   drawn_power_detect, status, gConsecFails>>
    /\ gStop' = "hard"
    /\ UNCHANGED <<gLoadSeen, gDelayed, gTop>>
    /\ UNCHANGED nonMain

(* lines 361-362: the plug-detect interrupt ends idle mode; UART_INT_EN() *)
main_wake ==
    /\ mpc = "sleep"
    /\ mpc' = "loop"
    /\ UNCHANGED <<no_load_counter, prev_was_load, low_batt_counter,
                   drawn_power_detect, status, gConsecFails>>
    /\ UNCHANGED mghosts
    /\ UNCHANGED nonMain

MNext ==
    \/ main_check_battery \/ main_lowbatt_stop \/ main_lowbatt_count
    \/ main_lowbatt_wait \/ main_check_plug \/ main_start
    \/ main_start_failed \/ main_inrush \/ main_check_load
    \/ main_noload_long \/ main_noload_short \/ main_noload_keepalive
    \/ main_noload_wakeup
    \/ main_unplugged \/ main_wake

----------------------------------------------------------------------------
(* start_inverter, stop_inverter and enough_power_drawn, lines 199-273.
   One step per loop iteration. Each poll is answered by the peer with any
   response of at most MaxRespLen bytes (none: the empty response);
   LIN_read_response stores it at the start of resp_buff and returns its
   length. POW_5V is an input: it takes any value while a delay passes
   before it is read again. *)

MaxRespLen == 4     \* model bound: bytes in a peer response

RESP_BUFF_LEN == 9  \* line 66
START_LAST == 2     \* lines 203 and 223
POLLS == 10         \* lines 210, 237, 263
STOP_TRIES == 3     \* line 234
STOP_EXIT == 3      \* line 251
PULSES == 10        \* line 245
WAITS == 10         \* line 255
MARKER == 255       \* lines 242 and 267
POWER_LIMIT == 5    \* line 270

Bit0(x) == x % 2 = 1             \* x & 0x01
Bit1(x) == (x \div 2) % 2 = 1    \* x & 0x02

\* the values a response carries at byte k (0-based): power, status flags,
\* marker; the other bytes are not read by the code
RespByte(k) ==
    CASE k = 0 -> {0, 5}
      [] k = 1 -> 0..3
      [] k = 3 -> {0, MARKER}
      [] OTHER -> {0}

Responses ==
    UNION { { r \in [1..n -> {0, 1, 2, 3, 5, MARKER}] :
                \A k \in 1..n : r[k] \in RespByte(k - 1) } : n \in 0..MaxRespLen }

\* lines 167-180: the bytes stored (at most 9) and the count returned
LIN_read_count(r) == IF Len(r) < RESP_BUFF_LEN THEN Len(r) ELSE RESP_BUFF_LEN

LIN_read_response(dest, r) ==
    [k \in 0..(RESP_BUFF_LEN - 1) |->
        IF k < LIN_read_count(r) THEN r[k + 1] ELSE dest[k]]

PeerClass(r) ==
    IF Len(r) = 0 THEN "silent"
    ELSE IF Len(r) >= 3 /\ Bit0(r[2]) /\ Bit1(r[2]) THEN "good"
    ELSE IF Len(r) >= 3 /\ Bit0(r[2]) /\ ~Bit1(r[2]) THEN "acknopg"
    ELSE "other"

PeerAfter(r) ==
    IF gPeer = "none" THEN PeerClass(r)
    ELSE IF gPeer = PeerClass(r) THEN gPeer ELSE "mixed"

FreshConfirm(r) == Len(r) >= 4 /\ r[4] = MARKER /\ ~Bit0(r[2])

FreshLoad(r) == Len(r) >= 4 /\ r[4] = MARKER /\ Bit0(r[2]) /\ r[1] > 0

SLocalsIdle ==
    /\ s_i = 0 /\ s_j = 0 /\ s_k = 0
    /\ no_resp = TRUE /\ PGOOD_fail = FALSE /\ cut_power = FALSE
    /\ power_sum = 0 /\ st_ret = 0 /\ ep_ret = FALSE

SGhostsIdle ==
    /\ gRailAtEntry = FALSE /\ gWakeups = 0 /\ gCmdFrames = 0
    /\ gStatusReqs = 0 /\ gPeer = "none" /\ gAnyResp = FALSE
    /\ gAnyAckNoPg = FALSE /\ gConfirmed = FALSE /\ gFreshConfirm = FALSE
    /\ gPulses = 0 /\ gWaits = 0 /\ gExit = "none" /\ gValid = 0
    /\ gStale = FALSE

\* lines 66 and 296-297; the rail is in either state
SInit ==
    /\ spc = "idle"
    /\ SLocalsIdle /\ SGhostsIdle
    /\ resp_buff = [k \in 0..(RESP_BUFF_LEN - 1) |-> 0]
    /\ POW_5V \in BOOLEAN
    /\ EN_OV = FALSE

SIdle ==
    /\ spc = "idle"
    /\ SLocalsIdle /\ SGhostsIdle
    /\ resp_buff = [k \in 0..(RESP_BUFF_LEN - 1) |-> 0]
    /\ POW_5V = FALSE
    /\ EN_OV = FALSE

\* a function returns: its locals die, the history of the call is dropped
SReturn ==
    /\ spc \in {"st_done", "sp_done", "ep_done"}
    /\ spc' = "idle"
    /\ s_i' = 0 /\ s_j' = 0 /\ s_k' = 0
    /\ no_resp' = TRUE /\ PGOOD_fail' = FALSE /\ cut_power' = FALSE
    /\ power_sum' = 0 /\ st_ret' = 0 /\ ep_ret' = FALSE
    /\ gRailAtEntry' = FALSE /\ gWakeups' = 0 /\ gCmdFrames' = 0
    /\ gStatusReqs' = 0 /\ gPeer' = "none" /\ gAnyResp' = FALSE
    /\ gAnyAckNoPg' = FALSE /\ gConfirmed' = FALSE /\ gFreshConfirm' = FALSE
    /\ gPulses' = 0 /\ gWaits' = 0 /\ gExit' = "none" /\ gValid' = 0
    /\ gStale' = FALSE
    /\ UNCHANGED <<resp_buff, POW_5V, EN_OV>>
    /\ UNCHANGED nonSup

(* ---- start_inverter, lines 199-230 *)

start_inverter_call ==
    /\ spc = "idle"
    /\ \E rail \in BOOLEAN : POW_5V' = rail /\ gRailAtEntry' = rail
    /\ spc' = "st_wake"
    /\ UNCHANGED <<slocals, resp_buff, EN_OV>>
    /\ UNCHANGED <<gWakeups, gCmdFrames, gStatusReqs, gPeer, gAnyResp,
                   gAnyAckNoPg, gConfirmed, gFreshConfirm, gPulses, gWaits,
                   gExit, gValid, gStale>>
    /\ UNCHANGED nonSup

st_wake_last(i) == i = START_LAST     \* line 203

(* lines 200-204: one iteration; LIN_wakeup (lines 132-139) takes 116 ms *)
start_inverter_wake ==
    /\ spc = "st_wake"
    /\ IF ~POW_5V
         THEN /\ \E rail \in BOOLEAN : POW_5V' = rail
              /\ gWakeups' = gWakeups + 1
              /\ IF st_wake_last(s_i)
                   THEN st_ret' = WAKEUP_ERROR /\ spc' = "st_done"
                        /\ UNCHANGED s_i
                   ELSE s_i' = s_i + 1 /\ UNCHANGED <<st_ret, spc>>
         ELSE /\ spc' = "st_cmd" /\ s_i' = 0
              /\ UNCHANGED <<POW_5V, gWakeups, st_ret>>
    /\ UNCHANGED <<s_j, s_k, no_resp, PGOOD_fail, cut_power, power_sum,
                   ep_ret, resp_buff, EN_OV>>
    /\ UNCHANGED <<gRailAtEntry, gCmdFrames, gStatusReqs, gPeer, gAnyResp,
                   gAnyAckNoPg, gConfirmed, gFreshConfirm, gPulses, gWaits,
                   gExit, gValid, gStale>>
    /\ UNCHANGED nonSup

(* lines 206-209: the command frame, id 0x3A with {0x02, 0x00} *)
start_inverter_cmd ==
    /\ spc = "st_cmd"
    /\ gCmdFrames' = gCmdFrames + 1
    /\ no_resp' = TRUE /\ PGOOD_fail' = FALSE
    /\ s_j' = 0
    /\ spc' = "st_poll"
    /\ UNCHANGED <<s_i, s_k, cut_power, power_sum, st_ret, ep_ret, resp_buff,
                   POW_5V, EN_OV>>
    /\ UNCHANGED <<gRailAtEntry, gWakeups, gStatusReqs, gPeer, gAnyResp,
                   gAnyAckNoPg, gConfirmed, gFreshConfirm, gPulses, gWaits,
                   gExit, gValid, gStale>>
    /\ UNCHANGED nonSup

st_poll_again(j) == j < POLLS     \* line 210

(* lines 210-222: one inner iteration *)
start_inverter_poll ==
    /\ spc = "st_poll"
    /\ \E r \in Responses :
         LET read == LIN_read_count(r)
             buf == LIN_read_response(resp_buff, r)
             stat == buf[1]
         IN /\ resp_buff' = buf
            /\ gStatusReqs' = gStatusReqs + 1
            /\ gPeer' = PeerAfter(r)
            /\ gAnyResp' = (gAnyResp \/ Len(r) > 0)
            /\ gAnyAckNoPg' = (gAnyAckNoPg \/ PeerClass(r) = "acknopg")
            /\ no_resp' = IF read > 0 THEN FALSE ELSE no_resp
            /\ IF read >= 3 /\ Bit0(stat) /\ Bit1(stat)
                 THEN /\ st_ret' = 0 /\ spc' = "st_done"
                      /\ UNCHANGED <<s_j, PGOOD_fail>>
                 ELSE /\ PGOOD_fail' = IF read >= 3 /\ Bit0(stat) THEN TRUE
                                                                 ELSE PGOOD_fail
                      /\ s_j' = s_j + 1
                      /\ spc' = IF st_poll_again(s_j') THEN "st_poll"
                                                       ELSE "st_round_end"
                      /\ UNCHANGED st_ret
    /\ UNCHANGED <<s_i, s_k, cut_power, power_sum, ep_ret, POW_5V, EN_OV>>
    /\ UNCHANGED <<gRailAtEntry, gWakeups, gCmdFrames, gConfirmed,
                   gFreshConfirm, gPulses, gWaits, gExit, gValid, gStale>>
    /\ UNCHANGED nonSup

\* the failure classified one round early
st_last_round_early(i) == i = START_LAST - 1

st_last_round(i) == i = START_LAST     \* line 223

(* lines 223-227; i stays below the bound 10 of line 205 *)
start_inverter_round_end ==
    /\ spc = "st_round_end"
    /\ IF st_last_round(s_i)
         THEN /\ st_ret' = IF no_resp THEN RESP_ERROR
                           ELSE IF PGOOD_fail THEN PGOOD_ERROR
                           ELSE STARTUP_ERROR
              /\ spc' = "st_done"
              /\ UNCHANGED s_i
         ELSE /\ s_i' = s_i + 1
              /\ spc' = "st_cmd"
              /\ UNCHANGED st_ret
    /\ UNCHANGED <<s_j, s_k, no_resp, PGOOD_fail, cut_power, power_sum,
                   ep_ret, resp_buff, POW_5V, EN_OV>>
    /\ UNCHANGED sghosts
    /\ UNCHANGED nonSup

(* ---- stop_inverter, lines 232-259 *)

(* line 233 *)
stop_inverter_call ==
    /\ spc = "idle"
    /\ \E cut \in BOOLEAN, rail \in BOOLEAN :
         /\ cut_power' = cut
         /\ POW_5V' = rail /\ gRailAtEntry' = rail
         /\ IF ~rail THEN spc' = "sp_done" /\ gExit' = "absent"
                     ELSE spc' = "sp_cmd" /\ UNCHANGED gExit
    /\ UNCHANGED <<s_i, s_j, s_k, no_resp, PGOOD_fail, power_sum, st_ret,
                   ep_ret, resp_buff, EN_OV>>
    /\ UNCHANGED <<gWakeups, gCmdFrames, gStatusReqs, gPeer, gAnyResp,
                   gAnyAckNoPg, gConfirmed, gFreshConfirm, gPulses, gWaits,
                   gValid, gStale>>
    /\ UNCHANGED nonSup

(* lines 235-236: the command frame, id 0x3A with {0x00, 0x00} *)
stop_inverter_cmd ==
    /\ spc = "sp_cmd"
    /\ gCmdFrames' = gCmdFrames + 1
    /\ s_j' = 0
    /\ spc' = "sp_poll"
    /\ UNCHANGED <<s_i, s_k, no_resp, PGOOD_fail, cut_power, power_sum,
                   st_ret, ep_ret, resp_buff, POW_5V, EN_OV>>
    /\ UNCHANGED <<gRailAtEntry, gWakeups, gStatusReqs, gPeer, gAnyResp,
                   gAnyAckNoPg, gConfirmed, gFreshConfirm, gPulses, gWaits,
                   gExit, gValid, gStale>>
    /\ UNCHANGED nonSup

\* lines 241-243: the response confirms that the peer stopped
sp_confirms(read, buf) == read >= 3 /\ buf[3] = MARKER /\ ~Bit0(buf[1])

(* lines 237-244: one inner iteration *)
stop_inverter_poll ==
    /\ spc = "sp_poll"
    /\ \E r \in Responses :
         LET read == LIN_read_count(r)
             buf == LIN_read_response(resp_buff, r)
         IN /\ resp_buff' = buf
            /\ gStatusReqs' = gStatusReqs + 1
            /\ gFreshConfirm' = (gFreshConfirm \/ FreshConfirm(r))
            /\ gStale' = (gStale \/ (sp_confirms(read, buf) /\ read < 4))
            /\ IF sp_confirms(read, buf)
                 THEN /\ gConfirmed' = TRUE
                      /\ UNCHANGED s_j
                      /\ IF ~cut_power
                           THEN /\ spc' = "sp_done" /\ gExit' = "confirmed"
                                /\ UNCHANGED s_k
                           ELSE /\ spc' = "sp_pulse_on" /\ s_k' = 0
                                /\ UNCHANGED gExit
                 ELSE /\ s_j' = s_j + 1
                      /\ spc' = IF s_j' < POLLS THEN "sp_poll"
                                                ELSE "sp_round_end"
                      /\ UNCHANGED <<gConfirmed, s_k, gExit>>
    /\ UNCHANGED <<s_i, no_resp, PGOOD_fail, cut_power, power_sum, st_ret,
                   ep_ret, POW_5V, EN_OV>>
    /\ UNCHANGED <<gRailAtEntry, gWakeups, gCmdFrames, gPeer, gAnyResp,
                   gAnyAckNoPg, gPulses, gWaits, gValid>>
    /\ UNCHANGED nonSup

(* line 246 *)
stop_inverter_pulse_on ==
    /\ spc = "sp_pulse_on"
    /\ EN_OV' = TRUE
    /\ spc' = "sp_pulse_off"
    /\ UNCHANGED <<slocals, resp_buff, POW_5V, sghosts>>
    /\ UNCHANGED nonSup

\* the break taken with i left as it was
sp_exit_i_missing == s_i

\* line 251: the value given to i before the break
sp_exit_i == STOP_EXIT

(* lines 247-251: delay(100); EN_OV = 0; the rail test; after the last
   pulse, i = 3 and the break out of the poll loop *)
stop_inverter_pulse_off ==
    /\ spc = "sp_pulse_off"
    /\ EN_OV' = FALSE
    /\ gPulses' = gPulses + 1
    /\ \E rail \in BOOLEAN :
         /\ POW_5V' = rail
         /\ IF ~rail
              THEN /\ spc' = "sp_done" /\ gExit' = "dropped"
                   /\ UNCHANGED <<s_i, s_k>>
              ELSE /\ s_k' = s_k + 1
                   /\ UNCHANGED gExit
                   /\ IF s_k' < PULSES
                        THEN spc' = "sp_pulse_on" /\ UNCHANGED s_i
                        ELSE spc' = "sp_round_end" /\ s_i' = sp_exit_i
    /\ UNCHANGED <<s_j, no_resp, PGOOD_fail, cut_power, power_sum, st_ret,
                   ep_ret, resp_buff>>
    /\ UNCHANGED <<gRailAtEntry, gWakeups, gCmdFrames, gStatusReqs, gPeer,
                   gAnyResp, gAnyAckNoPg, gConfirmed, gFreshConfirm, gWaits,
                   gValid, gStale>>
    /\ UNCHANGED nonSup

(* lines 253-254: delay(250), i++ and the test of the outer loop; the loop
   of line 255 starts with its own counter at 0 *)
stop_inverter_round_end ==
    /\ spc = "sp_round_end"
    /\ s_i' = ByteWrap(s_i + 1)
    /\ IF s_i' < STOP_TRIES
         THEN spc' = "sp_cmd" /\ UNCHANGED s_k
         ELSE spc' = "sp_wait" /\ s_k' = 0
    /\ UNCHANGED <<s_j, no_resp, PGOOD_fail, cut_power, power_sum, st_ret,
                   ep_ret, resp_buff, POW_5V, EN_OV>>
    /\ UNCHANGED sghosts
    /\ UNCHANGED nonSup

(* lines 255-258: one iteration *)
stop_inverter_wait ==
    /\ spc = "sp_wait"
    /\ gWaits' = gWaits + 1
    /\ \E rail \in BOOLEAN :
         /\ POW_5V' = rail
         /\ IF ~rail
              THEN spc' = "sp_done" /\ gExit' = "dropped_late" /\ UNCHANGED s_k
              ELSE /\ s_k' = s_k + 1
                   /\ IF s_k' < WAITS
                        THEN UNCHANGED <<spc, gExit>>
                        ELSE spc' = "sp_done" /\ gExit' = "timeout"
    /\ UNCHANGED <<s_i, s_j, no_resp, PGOOD_fail, cut_power, power_sum,
                   st_ret, ep_ret, resp_buff, EN_OV>>
    /\ UNCHANGED <<gRailAtEntry, gWakeups, gCmdFrames, gStatusReqs, gPeer,
                   gAnyResp, gAnyAckNoPg, gConfirmed, gFreshConfirm, gPulses,
                   gValid, gStale>>
    /\ UNCHANGED nonSup

(* ---- enough_power_drawn, lines 261-273 *)

enough_power_drawn_call ==
    /\ spc = "idle"
    /\ spc' = "ep_poll"
    /\ power_sum' = 0 /\ s_i' = 0
    /\ UNCHANGED <<s_j, s_k, no_resp, PGOOD_fail, cut_power, st_ret, ep_ret,
                   resp_buff, POW_5V, EN_OV>>
    /\ UNCHANGED sghosts
    /\ UNCHANGED nonSup

\* line 267: the response is skipped
ep_skips(read, buf) == read < 3 \/ ~Bit0(buf[1]) \/ buf[3] # MARKER

ep_enough(sum) == sum >= POWER_LIMIT     \* line 270

(* lines 263-272: one iteration *)
enough_power_drawn_poll ==
    /\ spc = "ep_poll"
    /\ \E r \in Responses :
         LET read == LIN_read_count(r)
             buf == LIN_read_response(resp_buff, r)
             sum == IF ep_skips(read, buf) THEN power_sum
                    ELSE ByteWrap(power_sum + (IF buf[0] > 0 THEN 1 ELSE 0))
         IN /\ resp_buff' = buf
            /\ gStatusReqs' = gStatusReqs + 1
            /\ gValid' = gValid + (IF FreshLoad(r) THEN 1 ELSE 0)
            /\ gStale' = (gStale \/ (~ep_skips(read, buf) /\ read < 4))
            /\ power_sum' = sum
            /\ IF ~ep_skips(read, buf) /\ ep_enough(sum)
                 THEN ep_ret' = TRUE /\ spc' = "ep_done" /\ UNCHANGED s_i
                 ELSE /\ s_i' = s_i + 1
                      /\ IF s_i' < POLLS
                           THEN UNCHANGED <<spc, ep_ret>>
                           ELSE ep_ret' = FALSE /\ spc' = "ep_done"
    /\ UNCHANGED <<s_j, s_k, no_resp, PGOOD_fail, cut_power, st_ret,
                   POW_5V, EN_OV>>
    /\ UNCHANGED <<gRailAtEntry, gWakeups, gCmdFrames, gPeer, gAnyResp,
                   gAnyAckNoPg, gConfirmed, gFreshConfirm, gPulses, gWaits,
                   gExit>>
    /\ UNCHANGED nonSup

SNext ==
    \/ start_inverter_call \/ start_inverter_wake \/ start_inverter_cmd
    \/ start_inverter_poll \/ start_inverter_round_end
    \/ stop_inverter_call \/ stop_inverter_cmd \/ stop_inverter_poll
    \/ stop_inverter_pulse_on \/ stop_inverter_pulse_off
    \/ stop_inverter_round_end \/ stop_inverter_wait
    \/ enough_power_drawn_call \/ enough_power_drawn_poll
    \/ SReturn

----------------------------------------------------------------------------
(* LIN_send_request and LIN_send_data, lines 141-165: a master frame, one
   step per call of UART_send. UART_send is taken by its argument; the loop
   of lines 142-145 waits at most 100 ms and sends nothing. *)

MaxPayload == 3     \* model bound: data bytes in a frame

WordWrap(x) == x % 65536

BitAt(x, k) == (x \div (2 ^ k)) % 2      \* (x >> k) & 0x01

Xor1(a, b) == (a + b) % 2                \* ^ on single bits

power_on_data == <<2, 0, 0>>             \* line 65

StartCommand == SubSeq(power_on_data, 1, 2)    \* line 207
StopCommand == SubSeq(power_on_data, 2, 3)     \* line 236

PayloadBytes == {0, 2, 255}

Payloads ==
    UNION { [1..n -> PayloadBytes] : n \in 0..MaxPayload }

\* line 149
parity_0(ID) ==
    Xor1(Xor1(BitAt(ID, 0), BitAt(ID, 1)), Xor1(BitAt(ID, 2), BitAt(ID, 4)))

\* mutation: line 150 without the negation
parity_1_not_negated(ID) ==
    2 * Xor1(Xor1(BitAt(ID, 1), BitAt(ID, 3)),
             Xor1(BitAt(ID, 4), BitAt(ID, 5)))

\* line 150: (!(...)) << 1
parity_1(ID) ==
    2 * (1 - Xor1(Xor1(BitAt(ID, 1), BitAt(ID, 3)),
                  Xor1(BitAt(ID, 4), BitAt(ID, 5))))

\* line 151: the two parities occupy different bits, so | is +
LIN_ID_word(ID) == ByteWrap((ID % 64) + (parity_0(ID) + parity_1(ID)) * 64)

\* line 163: low and high byte added, then ^ 0xFF flips the low 8 bits
LIN_fold(sum) ==
    LET folded == (sum % 256) + (sum \div 256)
    IN WordWrap(folded - (folded % 256) + (255 - (folded % 256)))

FIdle ==
    /\ fpc = "idle" /\ f_ID = 0 /\ ID_word = 0 /\ f_data = <<>> /\ f_i = 0
    /\ checksum = 0 /\ gHanded = <<>> /\ gCmd = "any"

(* lines 141-147 and the callers' lines 206, 212, 235, 239, 264: the frame
   identifier and, for a command frame, the payload the caller passes *)
LIN_send_request_call ==
    /\ fpc = "idle"
    /\ \E ID \in 0..63, cmd \in {"start", "stop", "request", "any"} :
         /\ f_ID' = ID
         /\ gCmd' = cmd
         /\ \E d \in Payloads :
              /\ cmd = "start" => d = StartCommand
              /\ cmd = "stop" => d = StopCommand
              /\ cmd = "request" => d = <<>>
              /\ f_data' = d
    /\ gHanded' = <<0>>          \* line 147: the break
    /\ fpc' = "rq_sync"
    /\ UNCHANGED <<ID_word, f_i, checksum>>
    /\ UNCHANGED nonFrame

(* lines 149-152 *)
LIN_send_request_sync ==
    /\ fpc = "rq_sync"
    /\ ID_word' = LIN_ID_word(f_ID)
    /\ gHanded' = Append(gHanded, 85)
    /\ fpc' = "rq_id"
    /\ UNCHANGED <<f_ID, f_data, f_i, checksum, gCmd>>
    /\ UNCHANGED nonFrame

(* lines 153-154 and 158: the identifier is sent and returned; after a
   status request nothing follows, otherwise LIN_send_data starts its sum
   from the identifier *)
LIN_send_request_id ==
    /\ fpc = "rq_id"
    /\ gHanded' = Append(gHanded, ID_word)
    /\ checksum' = ID_word
    /\ f_i' = 0
    /\ fpc' = IF gCmd = "request" THEN "sd_done" ELSE "sd_loop"
    /\ UNCHANGED <<f_ID, ID_word, f_data, gCmd>>
    /\ UNCHANGED nonFrame

(* lines 159-164: one data byte, or the checksum after the last *)
LIN_send_data_step ==
    /\ fpc = "sd_loop"
    /\ IF f_i < Len(f_data)
         THEN /\ gHanded' = Append(gHanded, f_data[f_i + 1])
              /\ checksum' = WordWrap(checksum + f_data[f_i + 1])
              /\ f_i' = f_i + 1
              /\ UNCHANGED fpc
         ELSE /\ checksum' = LIN_fold(checksum)
              /\ gHanded' = Append(gHanded, LIN_fold(checksum) % 256)
              /\ fpc' = "sd_done"
              /\ UNCHANGED f_i
    /\ UNCHANGED <<f_ID, ID_word, f_data, gCmd>>
    /\ UNCHANGED nonFrame

(* lines 154 and 165 *)
LIN_send_data_return ==
    /\ fpc = "sd_done"
    /\ fpc' = "idle"
    /\ f_ID' = 0 /\ ID_word' = 0 /\ f_data' = <<>> /\ f_i' = 0
    /\ checksum' = 0 /\ gHanded' = <<>> /\ gCmd' = "any"
    /\ UNCHANGED nonFrame

FNext ==
    \/ LIN_send_request_call \/ LIN_send_request_sync \/ LIN_send_request_id
    \/ LIN_send_data_step \/ LIN_send_data_return

----------------------------------------------------------------------------
(* show_error, lines 282-291, one step per statement. main() calls it with
   LOW_BATT_ERR (line 316) or with a nonzero result of start_inverter
   (line 330). POW_5V is an input read once, at line 283. *)

BLINKS == 3         \* line 284
LONG_MS == 500      \* line 286
SHORT_MS == 250     \* line 286
OFF_MS == 350       \* line 289

ErrorCodes ==
    {LOW_BATT_ERR, WAKEUP_ERROR, RESP_ERROR, STARTUP_ERROR, PGOOD_ERROR}

EIdle ==
    /\ epc = "idle" /\ err_code = 0 /\ e_i = 0 /\ LED_OV = FALSE
    /\ gCode = 0 /\ gRailSeen = FALSE /\ gWoke = FALSE /\ gBlinks = <<>>

(* line 283: the test of POW_5V *)
show_error_call ==
    /\ epc = "idle"
    /\ \E code \in ErrorCodes, rail \in BOOLEAN :
         /\ err_code' = code /\ gCode' = code
         /\ gRailSeen' = rail
         /\ epc' = IF ~rail THEN "wake" ELSE "led_on"
    /\ e_i' = 0
    /\ UNCHANGED <<LED_OV, gWoke, gBlinks>>
    /\ UNCHANGED nonErr

(* line 283: LIN_wakeup() *)
show_error_wake ==
    /\ epc = "wake"
    /\ gWoke' = TRUE
    /\ epc' = "led_on"
    /\ UNCHANGED <<err_code, e_i, LED_OV, gCode, gRailSeen, gBlinks>>
    /\ UNCHANGED nonErr

(* line 285 *)
show_error_led_on ==
    /\ epc = "led_on"
    /\ LED_OV' = TRUE
    /\ epc' = "delay_on"
    /\ UNCHANGED <<err_code, e_i, gCode, gRailSeen, gWoke, gBlinks>>
    /\ UNCHANGED nonErr

\* line 286: (err_code & 0x04) ? 500 : 250
err_on_time(c) == IF (c \div 4) % 2 = 1 THEN LONG_MS ELSE SHORT_MS

(* line 286 *)
show_error_delay_on ==
    /\ epc = "delay_on"
    /\ gBlinks' = Append(gBlinks, <<LED_OV, err_on_time(err_code)>>)
    /\ epc' = "shift"
    /\ UNCHANGED <<err_code, e_i, LED_OV, gCode, gRailSeen, gWoke>>
    /\ UNCHANGED nonErr

\* mutation: line 287 left out
err_shift_missing(c) == c

err_shift(c) == ByteWrap(c * 2)      \* line 287: err_code <<= 1

(* lines 287-288 *)
show_error_shift ==
    /\ epc = "shift"
    /\ err_code' = err_shift(err_code)
    /\ LED_OV' = FALSE
    /\ epc' = "delay_off"
    /\ UNCHANGED <<e_i, gCode, gRailSeen, gWoke, gBlinks>>
    /\ UNCHANGED nonErr

(* lines 289 and 284: delay(350), i++ and the loop test *)
show_error_delay_off ==
    /\ epc = "delay_off"
    /\ gBlinks' = Append(gBlinks, <<LED_OV, OFF_MS>>)
    /\ e_i' = e_i + 1
    /\ epc' = IF e_i' < BLINKS THEN "led_on" ELSE "done"
    /\ UNCHANGED <<err_code, LED_OV, gCode, gRailSeen, gWoke>>
    /\ UNCHANGED nonErr

(* line 291; the indicator keeps its level *)
show_error_return ==
    /\ epc = "done"
    /\ epc' = "idle"
    /\ err_code' = 0 /\ e_i' = 0
    /\ gCode' = 0 /\ gRailSeen' = FALSE /\ gWoke' = FALSE /\ gBlinks' = <<>>
    /\ UNCHANGED LED_OV
    /\ UNCHANGED nonErr

ENext ==
    \/ show_error_call \/ show_error_wake \/ show_error_led_on
    \/ show_error_delay_on \/ show_error_shift \/ show_error_delay_off
    \/ show_error_return

----------------------------------------------------------------------------
(* LIN_read_response, lines 167-180, on top of UART_read and the receive
   interrupt. The hardware and the handler act while the delays of lines
   169 and 177 pass. The call of UART_read is the step to "read_cli"; its
   statements are the steps UART_read_cli .. UART_read_dec. *)

FIRST_POLLS == 5    \* line 168
DEQ_KEPT == 10      \* length of the history gDeq: one more than dest holds

RIdle ==
    /\ rpc = "idle" /\ r_i = 0 /\ read_bytes = 0 /\ r_ret = 0
    /\ gEmptyPolls = 0 /\ gDeq = <<>> /\ gOverrun = FALSE

otherSup == <<spc, slocals, POW_5V, EN_OV, sghosts>>

LIN_read_response_call ==
    /\ rpc = "idle" /\ upc = "idle" /\ ~IsrPending
    /\ rpc' = "rr_poll"
    /\ UNCHANGED <<r_i, read_bytes, r_ret, gEmptyPolls, gDeq, gOverrun>>
    /\ UNCHANGED <<uvars, svars>>
    /\ UNCHANGED nonRead

(* lines 168-173: delay(2), the test of buffered_rcv, the return of 0 at
   the fifth empty test *)
LIN_read_response_poll ==
    /\ rpc = "rr_poll" /\ ~IsrPending
    /\ IF buffered_rcv # 0
         THEN /\ rpc' = "rr_while"
              /\ UNCHANGED <<r_i, r_ret, gEmptyPolls>>
         ELSE /\ gEmptyPolls' = gEmptyPolls + 1
              /\ IF r_i = FIRST_POLLS - 1
                   THEN r_ret' = 0 /\ rpc' = "rr_done" /\ UNCHANGED r_i
                   ELSE r_i' = r_i + 1 /\ UNCHANGED <<r_ret, rpc>>
    /\ UNCHANGED <<read_bytes, gDeq, gOverrun>>
    /\ UNCHANGED <<uvars, svars>>
    /\ UNCHANGED nonRead

(* lines 174-175 and 179: the loop test, then the call of UART_read or the
   return of read_bytes *)
LIN_read_response_while ==
    /\ rpc = "rr_while" /\ upc = "idle" /\ ~IsrPending
    /\ IF buffered_rcv # 0
         THEN /\ upc' = "read_cli" /\ rpc' = "rr_read"
              /\ UNCHANGED r_ret
         ELSE /\ r_ret' = read_bytes /\ rpc' = "rr_done"
              /\ UNCHANGED upc
    /\ UNCHANGED <<r_i, read_bytes, gEmptyPolls, gDeq, gOverrun>>
    /\ UNCHANGED <<rxvars, txvars, hwvars, locals, rxCount, txCount, ghosts>>
    /\ UNCHANGED svars
    /\ UNCHANGED nonRead

\* mutation: line 176 with <= for <
rr_stores_one_more(n) == n <= RESP_BUFF_LEN

rr_stores(n) == n < RESP_BUFF_LEN       \* line 176

(* lines 128-129 (sei() and the return of UART_read) and 176-177: the byte
   returned is stored at dest[read_bytes] while read_bytes < 9 *)
LIN_read_response_store ==
    /\ rpc = "rr_read" /\ upc = "read_sei" /\ ~IsrPending
    /\ EA' = TRUE
    /\ upc' = "idle"
    /\ u_read' = 0 /\ u_tmp' = 0
    /\ IF rr_stores(read_bytes)
         THEN /\ resp_buff' = IF read_bytes \in DOMAIN resp_buff
                                THEN [resp_buff EXCEPT ![read_bytes] = u_read]
                                ELSE resp_buff
              /\ gOverrun' = (gOverrun \/ read_bytes \notin DOMAIN resp_buff)
              /\ read_bytes' = ByteWrap(read_bytes + 1)
         ELSE UNCHANGED <<resp_buff, gOverrun, read_bytes>>
    /\ gDeq' = IF Len(gDeq) < DEQ_KEPT THEN Append(gDeq, u_read) ELSE gDeq
    /\ rpc' = "rr_while"
    /\ UNCHANGED <<r_i, r_ret, gEmptyPolls>>
    /\ UNCHANGED <<rxvars, txvars, ES, TI, RI, SBUF, txShift, tr_armed,
                   u_data, u_full, rxCount, txCount, ghosts>>
    /\ UNCHANGED otherSup
    /\ UNCHANGED nonRead

(* line 179; the locals die, dest keeps what was stored *)
LIN_read_response_return ==
    /\ rpc = "rr_done" /\ ~IsrPending
    /\ rpc' = "idle"
    /\ r_i' = 0 /\ read_bytes' = 0 /\ r_ret' = 0
    /\ gEmptyPolls' = 0 /\ gDeq' = <<>> /\ gOverrun' = FALSE
    /\ UNCHANGED <<uvars, svars>>
    /\ UNCHANGED nonRead

(* The receiver completes a byte of a peer that transmits without pause:
   as HwReceive, with no bound on the number of bytes. The value of the
   byte is immaterial and is taken as 0x55. *)
HwReceiveStream ==
    /\ ~IsrPending
    /\ ~RI
    /\ SBUF' = 85
    /\ RI' = TRUE
    /\ UNCHANGED <<rxvars, txvars, EA, ES, TI, txShift, tr_armed, upc, locals,
                   rxCount, txCount, ghosts>>
    /\ UNCHANGED nonUart

\* the steps of the main context
RMain ==
    \/ LIN_read_response_call \/ LIN_read_response_poll
    \/ LIN_read_response_while \/ LIN_read_response_store
    \/ LIN_read_response_return
    \/ UART_read_cli \/ UART_read_chk \/ UART_read_load \/ UART_read_rpos
    \/ UART_read_ld \/ UART_read_dec

RNext ==
    \/ HwReceive \/ UART_ISR
    \/ LIN_read_response_call \/ LIN_read_response_poll
    \/ LIN_read_response_while \/ LIN_read_response_store
    \/ LIN_read_response_return
    \/ UART_read_cli \/ UART_read_chk \/ UART_read_load \/ UART_read_rpos
    \/ UART_read_ld \/ UART_read_dec

----------------------------------------------------------------------------
(* The unplugged branch of main(), lines 358-363, with the plug interrupt
   and the transmit side of the serial transport. The battery is good in
   this layer: is_power_good() returns true after its ten delays of 10 ms.
   The receiver is left out: it shares no flag with the transmitter.

   Time is counted in byte times while a long delay runs. The serial port
   runs in mode 1 (line 298) at 19200 baud (line 301): a byte is on the
   wire for 10 bit times, 520 us, and the delay loop of lines 92-97 is
   calibrated in milliseconds. A byte found on the wire at two successive
   byte-time boundaries would have taken more than a byte time, so a
   boundary passes only when the byte seen at the one before has gone. *)

LONG_DELAY_MS == 100     \* lines 187 (ten times 10 ms) and 247
BAUD == 19200            \* line 301
BITS_PER_BYTE == 10      \* line 298: mode 1, start bit, 8 data bits, stop bit

DelayTicks == (LONG_DELAY_MS * BAUD) \div (1000 * BITS_PER_BYTE)

EX0 == TRUE              \* line 310: PLUG_INT_EN(), never disabled

(* INT0 is edge triggered (line 303, TCON = 0x41): the falling edge of P3_2
   sets the latch IE0, and the hardware clears it when the handler is
   entered. *)
PlugPending == IE0 /\ EX0 /\ EA

ZIdle ==
    /\ zpc = "off" /\ PLUG = FALSE /\ IE0 = FALSE
    /\ zticks = 0 /\ zSeen = NoByte
    /\ gWoken = FALSE /\ gTxBefore = FALSE

(* after line 311, booted with nothing plugged *)
ZInit ==
    /\ zpc = "z_loop" /\ PLUG = FALSE /\ IE0 = FALSE
    /\ zticks = 0 /\ zSeen = NoByte
    /\ gWoken = FALSE /\ gTxBefore = FALSE

(* The user plugs a device in: P3_2 falls. *)
PlugIn ==
    /\ ~PLUG
    /\ PLUG' = TRUE /\ IE0' = TRUE
    /\ UNCHANGED <<zpc, zticks, zSeen, gWoken, gTxBefore>>
    /\ UNCHANGED uvars /\ UNCHANGED nonSleep

(* The user unplugs it: P3_2 rises, which is not the active edge. *)
PlugOut ==
    /\ PLUG
    /\ PLUG' = FALSE
    /\ UNCHANGED <<zpc, IE0, zticks, zSeen, gWoken, gTxBefore>>
    /\ UNCHANGED uvars /\ UNCHANGED nonSleep

(* PLUG_ISR, lines 68-70: the handler is empty. Entering it clears IE0 and
   ends idle mode: after the return the main context continues behind
   ENTER_IDLE(). *)
PLUG_ISR ==
    /\ PlugPending
    /\ IE0' = FALSE
    /\ zpc' = IF zpc = "z_asleep" THEN "z_en" ELSE zpc
    /\ gWoken' = (gWoken \/ zpc = "z_asleep")
    /\ UNCHANGED <<PLUG, zticks, zSeen, gTxBefore>>
    /\ UNCHANGED uvars /\ UNCHANGED nonSleep

(* The main context executes a statement of main(): no handler is due and
   no call of UART_send is running. *)
ZRuns == upc = "idle" /\ ~IsrPending /\ ~PlugPending

TxQuiet == txShift = NoByte /\ ~TI /\ buffered_tr = 0

\* mutation: the delays of lines 187 and 247 take no time
delay_skipped(t) == TRUE

delay_elapsed(t) == t >= DelayTicks     \* lines 92-97

(* One byte time of a running delay passes. Once the transmitter is quiet
   nothing changes until the delay ends, and the rest of it is one step. *)
ByteTimePasses ==
    /\ ZRuns
    /\ ~delay_elapsed(zticks)
    /\ txShift = NoByte \/ txShift # zSeen
    /\ zSeen' = txShift
    /\ zticks' = IF TxQuiet THEN DelayTicks ELSE zticks + 1

(* line 313: is_power_good(), its delays *)
loop_power_good_wait ==
    /\ zpc = "z_loop"
    /\ ByteTimePasses
    /\ UNCHANGED <<zpc, PLUG, IE0, gWoken, gTxBefore>>
    /\ UNCHANGED uvars /\ UNCHANGED nonSleep

(* lines 313 and 324: is_power_good() returns true *)
loop_power_good ==
    /\ zpc = "z_loop" /\ ZRuns
    /\ delay_elapsed(zticks)
    /\ zpc' = "z_plug1"
    /\ zticks' = 0 /\ zSeen' = NoByte
    /\ UNCHANGED <<PLUG, IE0, gWoken, gTxBefore>>
    /\ UNCHANGED uvars /\ UNCHANGED nonSleep

(* lines 326 and 193: the first read of PLUG *)
anything_plugged_first ==
    /\ zpc = "z_plug1" /\ ZRuns
    /\ zpc' = IF PLUG THEN "z_plug2" ELSE "z_stop"
    /\ UNCHANGED <<PLUG, IE0, zticks, zSeen, gWoken, gTxBefore>>
    /\ UNCHANGED uvars /\ UNCHANGED nonSleep

(* lines 194-196: delay(20) and the second read of PLUG *)
anything_plugged_second ==
    /\ zpc = "z_plug2" /\ ZRuns
    /\ zpc' = IF PLUG THEN "z_start" ELSE "z_stop"
    /\ UNCHANGED <<PLUG, IE0, zticks, zSeen, gWoken, gTxBefore>>
    /\ UNCHANGED uvars /\ UNCHANGED nonSleep

(* lines 327-356: the plugged branch. start_inverter() and what follows it
   send any number of bytes. *)
loop_plugged_send ==
    /\ zpc = "z_start" /\ ~PlugPending
    /\ UART_send_call

loop_plugged_done ==
    /\ zpc = "z_start" /\ ZRuns
    /\ zpc' = "z_loop"
    /\ UNCHANGED <<PLUG, IE0, zticks, zSeen, gWoken, gTxBefore>>
    /\ UNCHANGED uvars /\ UNCHANGED nonSleep

(* lines 359 and 233: stop_inverter(true) returns at once when the rail is
   absent *)
loop_stop_entry ==
    /\ zpc = "z_stop" /\ ZRuns
    /\ \E rail \in BOOLEAN :
         zpc' = IF rail THEN "z_stop_tx" ELSE "z_dis"
    /\ UNCHANGED <<PLUG, IE0, zticks, zSeen, gWoken, gTxBefore>>
    /\ UNCHANGED uvars /\ UNCHANGED nonSleep

(* lines 235-239: the frames of stop_inverter *)
loop_stop_send ==
    /\ zpc = "z_stop_tx" /\ ~PlugPending
    /\ UART_send_call

(* Every path from a frame of stop_inverter(true) to its return runs
   through delay(100) of line 247, delay(250) of line 253 or delay(1000)
   of line 256. *)
loop_stop_sent ==
    /\ zpc = "z_stop_tx" /\ ZRuns
    /\ zpc' = "z_stop_delay"
    /\ UNCHANGED <<PLUG, IE0, zticks, zSeen, gWoken, gTxBefore>>
    /\ UNCHANGED uvars /\ UNCHANGED nonSleep

loop_stop_wait ==
    /\ zpc = "z_stop_delay"
    /\ ByteTimePasses
    /\ UNCHANGED <<zpc, PLUG, IE0, gWoken, gTxBefore>>
    /\ UNCHANGED uvars /\ UNCHANGED nonSleep

loop_stop_return ==
    /\ zpc = "z_stop_delay" /\ ZRuns
    /\ delay_elapsed(zticks)
    /\ zpc' = "z_dis"
    /\ zticks' = 0 /\ zSeen' = NoByte
    /\ UNCHANGED <<PLUG, IE0, gWoken, gTxBefore>>
    /\ UNCHANGED uvars /\ UNCHANGED nonSleep

(* lines 360 and 30 *)
UART_INT_DIS ==
    /\ zpc = "z_dis" /\ ZRuns
    /\ ES' = FALSE
    /\ zpc' = "z_idle"
    /\ gTxBefore' = (txCount > 0)
    /\ UNCHANGED <<PLUG, IE0, zticks, zSeen, gWoken>>
    /\ UNCHANGED <<rxvars, txvars, EA, TI, RI, SBUF, txShift, tr_armed, upc,
                   locals, rxCount, txCount, ghosts>>
    /\ UNCHANGED nonSleep

(* lines 361 and 33: the processor stops until an enabled interrupt is
   taken; the serial port keeps running *)
ENTER_IDLE ==
    /\ zpc = "z_idle" /\ ZRuns
    /\ zpc' = "z_asleep"
    /\ UNCHANGED <<PLUG, IE0, zticks, zSeen, gWoken, gTxBefore>>
    /\ UNCHANGED uvars /\ UNCHANGED nonSleep

(* lines 362 and 29 *)
UART_INT_EN ==
    /\ zpc = "z_en" /\ ZRuns
    /\ TI' = FALSE /\ RI' = FALSE /\ ES' = TRUE
    /\ zpc' = "z_loop"
    /\ UNCHANGED <<PLUG, IE0, zticks, zSeen, gWoken, gTxBefore>>
    /\ UNCHANGED <<rxvars, txvars, EA, SBUF, txShift, tr_armed, upc,
                   locals, rxCount, txCount, ghosts>>
    /\ UNCHANGED nonSleep

(* The main context *)
ZMain ==
    \/ loop_power_good_wait \/ loop_power_good
    \/ anything_plugged_first \/ anything_plugged_second
    \/ loop_plugged_send \/ loop_plugged_done
    \/ loop_stop_entry \/ loop_stop_send \/ loop_stop_sent
    \/ loop_stop_wait \/ loop_stop_return
    \/ UART_INT_DIS \/ ENTER_IDLE \/ UART_INT_EN
    \/ UART_send_cli \/ UART_send_chk \/ UART_send_store
    \/ UART_send_wpos \/ UART_send_ld \/ UART_send_inc \/ UART_send_arm
    \/ UART_send_wait \/ UART_send_sei

ZNext ==
    \/ ZMain
    \/ PlugIn \/ PlugOut \/ PLUG_ISR
    \/ HwTransmitDone \/ UART_ISR

----------------------------------------------------------------------------
(* The specifications *)

InitUart == UInit /\ PgIdle /\ MIdle /\ SIdle /\ FIdle /\ EIdle /\ RIdle /\ ZIdle
SpecUart == InitUart /\ [][UNext]_vars

InitPg == UInit /\ PgIdle /\ MIdle /\ SIdle /\ FIdle /\ EIdle /\ RIdle /\ ZIdle
SpecPg == InitPg /\ [][PgNext]_vars

InitSup == UInit /\ PgIdle /\ MIdle /\ SInit /\ FIdle /\ EIdle /\ RIdle /\ ZIdle
SpecSup == InitSup /\ [][SNext]_vars

InitFrame == UInit /\ PgIdle /\ MIdle /\ SIdle /\ FIdle /\ EIdle /\ RIdle /\ ZIdle
SpecFrame == InitFrame /\ [][FNext]_vars

InitErr == UInit /\ PgIdle /\ MIdle /\ SIdle /\ FIdle /\ EIdle /\ RIdle /\ ZIdle
SpecErr == InitErr /\ [][ENext]_vars

InitRead == UInit /\ PgIdle /\ MIdle /\ SIdle /\ FIdle /\ EIdle /\ RIdle /\ ZIdle
SpecRead == InitRead /\ [][RNext]_vars

(* LIN_read_response against a peer that may transmit without end. The
   handler runs when an enabled interrupt is pending, and between two
   interrupts the main context executes its next statement (a byte time is
   hundreds of instructions): interrupts cannot starve it. The peer is under
   no obligation. *)
InitReadLive == UInit /\ PgIdle /\ MIdle /\ SIdle /\ FIdle /\ EIdle /\ RIdle /\ ZIdle
RLiveNext ==
    \/ HwReceiveStream \/ UART_ISR
    \/ LIN_read_response_call \/ LIN_read_response_poll
    \/ LIN_read_response_while \/ LIN_read_response_store
    \/ LIN_read_response_return
    \/ UART_read_cli \/ UART_read_chk \/ UART_read_load \/ UART_read_rpos
    \/ UART_read_ld \/ UART_read_dec
SpecReadLive ==
    InitReadLive /\ [][RLiveNext]_vars /\ SF_vars(RMain) /\ WF_vars(UART_ISR)

(* The loop with its sleep. The main context is not starved: a handler
   runs to its return and the main context then executes at least one
   instruction. A pending handler is entered, and a byte on the wire is
   shifted out. *)
InitSleep == UInit /\ PgIdle /\ MIdle /\ SIdle /\ FIdle /\ EIdle /\ RIdle /\ ZInit
SpecSleep ==
    InitSleep /\ [][ZNext]_vars /\ SF_vars(ZMain) /\ WF_vars(PLUG_ISR)
              /\ WF_vars(UART_ISR) /\ WF_vars(HwTransmitDone)

Init == UInit /\ PgIdle /\ MInit /\ SIdle /\ FIdle /\ EIdle /\ RIdle /\ ZIdle
Next == MNext
Spec == Init /\ [][Next]_vars

----------------------------------------------------------------------------
(* Ring-buffer properties *)

\* count = (write index - read index) mod size, or size when full
IndexDistance(w, r, count, size) ==
    IF count = size THEN w = r ELSE (w - r + size) % size = count

SendTail == {"send_arm", "send_wait", "send_sei"}

(* C1: for each ring buffer, bytes are dequeued in exactly the order they
   were accepted, the count never exceeds the capacity 8, and an enqueue
   attempted while the count equals 8 leaves storage, indices and count
   unchanged: the handler's receive branch entered with a full receive
   buffer, and every step of a UART_send whose test of line 101 found the
   transmit buffer full. *)
C1_State ==
    /\ gRxFifo /\ gTxFifo
    /\ buffered_rcv <= RCV_BUFF_SIZE
    /\ buffered_tr <= TR_BUFF_SIZE

C1_FullStep ==
    /\ (IsrPending /\ RI /\ buffered_rcv = RCV_BUFF_SIZE) => UNCHANGED rxvars
    /\ (upc = "send_chk" /\ buffered_tr = TR_BUFF_SIZE)
          => (UNCHANGED txvars /\ upc' \in {"send_chk", "send_arm"})
    /\ (upc \in SendTail /\ u_full) => UNCHANGED txvars

C1_RingBufferFifo == []C1_State /\ [][C1_FullStep]_vars

\* a byte was dropped at a full receive buffer, the current UART_send found
\* the transmit buffer full, and both buffers have been dequeued from
C1_Witness ==
    /\ gRxDrop /\ rcv_read_pos # 0
    /\ upc = "send_arm" /\ u_full /\ tr_read_pos # 0

(* C2: every main-context mutation of a ring buffer's storage, index or
   count happens with interrupts disabled, and wherever interrupts are
   enabled each buffer's count equals accepted enqueues minus dequeues and
   equals (write index - read index) mod 8, or 8 when full. *)
MutatingPcs == {"send_store", "send_wpos", "send_ld", "send_inc",
                "read_load", "read_rpos", "read_ld", "read_dec"}

C2_NoLostUpdate ==
    /\ upc \in MutatingPcs => ~EA
    /\ EA => /\ buffered_rcv = Len(gRxQ)
             /\ buffered_tr = Len(gTxQ)
             /\ IndexDistance(rcv_write_pos, rcv_read_pos, buffered_rcv,
                              RCV_BUFF_SIZE)
             /\ IndexDistance(tr_write_pos, tr_read_pos, buffered_tr,
                              TR_BUFF_SIZE)

\* a receive and a transmit interrupt are both held off while the main
\* context is between the load and the store of a counter
C2_Witness ==
    /\ upc \in {"send_inc", "read_dec"} /\ ~EA /\ RI /\ TI
    /\ buffered_rcv > 0 /\ buffered_tr > 0

----------------------------------------------------------------------------
(* Battery debounce and undervoltage lock-out *)

RECURSIVE CountNotGood(_)
CountNotGood(samples) ==
    IF samples = <<>> THEN 0
    ELSE (IF Head(samples) THEN 0 ELSE 1) + CountNotGood(Tail(samples))

(* C9: is_power_good() returns false if and only if at least 5 of its 10
   samples are not-good, returning at the sample where the 5th not-good is
   seen without taking later samples, and returns true, after all 10
   samples, when 4 or fewer are not-good. *)
C9_PowerGoodMajority ==
    gpc = "done" =>
      /\ g_ret = FALSE <=> CountNotGood(gSamples) >= 5
      /\ g_ret = FALSE => /\ CountNotGood(gSamples) = 5
                          /\ Len(gSamples) <= 10
                          /\ gSamples[Len(gSamples)] = FALSE
      /\ g_ret = TRUE => /\ Len(gSamples) = 10
                         /\ CountNotGood(gSamples) <= 4

\* a false returned at the 10th sample, and a true with 4 not-good samples
C9_Witness ==
    /\ gpc = "done"
    /\ Len(gSamples) = 10
    /\ \/ ~g_ret
       \/ g_ret /\ CountNotGood(gSamples) = 4

(* C3: the control loop enters permanent shutdown exactly at the 5th
   is_power_good() failure in a row, never at the 4th nor after a 6th, and
   an iteration in which is_power_good() returns true resets
   low_batt_counter to 0. *)
C3_ShutdownAtFifthFailure ==
    /\ gConsecFails <= 5
    /\ mpc = "power_down" => gConsecFails = 5
    /\ gConsecFails = 5 => mpc \in {"lb_stop", "lb_count", "power_down"}
    /\ mpc = "plug" => low_batt_counter = 0
    /\ low_batt_counter =
          IF mpc \in {"lb_stop", "lb_count"} THEN gConsecFails - 1
                                             ELSE gConsecFails

\* shutdown reached by five failures that follow a success
C3_Witness ==
    /\ mpc = "power_down"
    /\ no_load_counter > 0

----------------------------------------------------------------------------
(* start_inverter *)

StartFailures == {RESP_ERROR, STARTUP_ERROR, PGOOD_ERROR}

(* C4: with the auxiliary rail present, for a peer that behaves the same on
   every poll: answering acknowledged and power-good, start_inverter returns
   success at the first poll of the first round (one command frame, one
   status request); never answering, it returns RESP_ERROR after exactly 3
   command frames and 30 status requests; answering acknowledged without
   power-good, it returns PGOOD_ERROR after exactly 3 rounds of 10 polls. *)
C4_StartAgainstConstantPeer ==
    (spc = "st_done" /\ gRailAtEntry) =>
      /\ gPeer = "good" =>
           st_ret = 0 /\ gCmdFrames = 1 /\ gStatusReqs = 1
      /\ gPeer = "silent" =>
           st_ret = RESP_ERROR /\ gCmdFrames = 3 /\ gStatusReqs = 30
      /\ gPeer = "acknopg" =>
           st_ret = PGOOD_ERROR /\ gCmdFrames = 3 /\ gStatusReqs = 30

\* the three rounds against a peer that acknowledges without power-good
C4_Witness ==
    /\ spc = "st_done" /\ gRailAtEntry /\ gWakeups = 0
    /\ gPeer = "acknopg" /\ st_ret = PGOOD_ERROR /\ gStatusReqs = 30

(* C5: when start_inverter fails after its final round, it returns
   RESP_ERROR if and only if no poll of any round received a byte;
   otherwise PGOOD_ERROR if some poll of any round received acknowledged
   without power-good, and STARTUP_ERROR otherwise. *)
C5_ClassifiedOverAllRounds ==
    (spc = "st_done" /\ st_ret \in StartFailures) =>
      /\ st_ret = RESP_ERROR <=> ~gAnyResp
      /\ gAnyResp => (st_ret = PGOOD_ERROR <=> gAnyAckNoPg)

(* C6: start_inverter issues LIN_wakeup at most 3 times and returns
   WAKEUP_ERROR only when the rail never appeared: with the rail present
   after any of those wake-ups, the last included, it does not return
   WAKEUP_ERROR. *)
C6_WakeupErrorOnlyIfRailAbsent ==
    /\ gWakeups <= 3
    /\ (spc = "st_done" /\ st_ret = WAKEUP_ERROR) => ~POW_5V

----------------------------------------------------------------------------
(* stop_inverter *)

StopPcs == {"sp_cmd", "sp_poll", "sp_pulse_on", "sp_pulse_off",
            "sp_round_end", "sp_wait", "sp_done"}

(* C7 as stated: after a confirmed stop and 10 pulses without the rail
   dropping, stop_inverter(true) returns without further waiting; the wait
   of up to 10 s is performed only when no confirmation was obtained. *)
C7_NoWaitAfterPulses ==
    (spc \in StopPcs /\ gWaits > 0) => ~gConfirmed

(* C7, amended: after a confirmed stop and 10 pulses without the rail
   dropping, stop_inverter(true) sends no further frame and goes on, after
   the 250 ms delay, to the same wait of up to 10 s as when no confirmation
   was obtained in any of the 3 attempts; the wait is performed in exactly
   these two cases, and a confirmed stop_inverter(true) returns without it
   only when the rail dropped after a pulse. *)
C7_WaitAfterPulsesOrNoConfirm ==
    spc \in StopPcs =>
      /\ gWaits <= 10 /\ gPulses <= 10
      /\ gWaits > 0 =>
           \/ ~gConfirmed /\ gPulses = 0
                 /\ gCmdFrames = 3 /\ gStatusReqs = 30
           \/ gConfirmed /\ cut_power /\ gPulses = 10
      /\ (gConfirmed /\ cut_power /\ gPulses = 10) =>
           spc \in {"sp_round_end", "sp_wait", "sp_done"}
      /\ (spc = "sp_done" /\ gConfirmed /\ cut_power /\ gExit # "dropped") =>
           gPulses = 10 /\ gWaits >= 1
      /\ (spc = "sp_done" /\ ~gConfirmed /\ gRailAtEntry) => gWaits >= 1

\* the full wait after a confirmed stop and 10 pulses
C7_Witness ==
    /\ spc = "sp_done" /\ cut_power /\ gConfirmed
    /\ gPulses = 10 /\ gWaits = 10 /\ gExit = "timeout"

(* C8: EN_OV is driven high only inside a stop_inverter(true) call that
   found the rail present at entry, and only after a status response with
   the validity marker and the acknowledged flag cleared was received in
   that call; a call with the rail absent at entry sends no frame; EN_OV is
   low whenever stop_inverter returns. *)
C8_PowerCutOnlyAfterValidConfirm ==
    /\ EN_OV => /\ spc \in StopPcs /\ cut_power /\ gRailAtEntry
                /\ gFreshConfirm
    /\ (spc \in StopPcs /\ ~gRailAtEntry) =>
          gCmdFrames = 0 /\ gStatusReqs = 0 /\ gPulses = 0
    /\ spc = "sp_done" => ~EN_OV

----------------------------------------------------------------------------
(* enough_power_drawn *)

(* C10: enough_power_drawn returns true if and only if at least 5 of its
   (at most 10) polls were answered by a response with the marker byte
   0xFF, the acknowledged flag and a nonzero power field. *)
C10_LoadIffFiveValidPolls ==
    spc = "ep_done" =>
      /\ ep_ret <=> gValid >= 5
      /\ gStatusReqs <= 10
      /\ ~ep_ret => gStatusReqs = 10

----------------------------------------------------------------------------
(* Master frames *)

RECURSIVE SumBytes(_)
SumBytes(d) == IF d = <<>> THEN 0 ELSE Head(d) + SumBytes(Tail(d))

BitSet(x, k) == (x \div (2 ^ k)) % 2 = 1

BoolBit(b) == IF b THEN 1 ELSE 0

\* protectedId = (id & 0x3F) | (p0 << 6) | (p1 << 7)
ProtectedId(id) ==
    LET p0 == (BitSet(id, 0) # BitSet(id, 1)) # (BitSet(id, 2) # BitSet(id, 4))
        p1 == ~((BitSet(id, 1) # BitSet(id, 3))
                  # (BitSet(id, 4) # BitSet(id, 5)))
    IN (id % 64) + 64 * BoolBit(p0) + 128 * BoolBit(p1)

\* the low 8 bits of the complement of ((s & 0xFF) + (s >> 8))
EnhancedChecksum(pid, d) ==
    LET s == pid + SumBytes(d)
    IN (65535 - ((s % 256) + (s \div 256))) % 256

MasterFrame(id, d) ==
    <<0, 85, ProtectedId(id)>> \o d \o <<EnhancedChecksum(ProtectedId(id), d)>>

(* C11: for every id in 0..63 and every payload, the bytes handed to
   UART_send for a master frame are, in this order, the break 0x00, the
   sync 0x55, the protected identifier, the payload bytes and the checksum;
   id 0x3A gives 0xBA, payload [0x02, 0x00] then gives checksum 0x43, and
   the stop command carries the payload [0x00, 0x00]. *)
C11_MasterFrameBytes ==
    (fpc # "idle" /\ gCmd # "request") =>
      /\ Len(gHanded) <= Len(MasterFrame(f_ID, f_data))
      /\ gHanded = SubSeq(MasterFrame(f_ID, f_data), 1, Len(gHanded))
      /\ fpc = "sd_done" =>
           /\ gHanded = MasterFrame(f_ID, f_data)
           /\ f_ID = 58 => gHanded[3] = 186
           /\ (f_ID = 58 /\ f_data = <<2, 0>>) => gHanded[6] = 67
           /\ gCmd = "stop" => f_data = <<0, 0>>
           /\ gCmd = "start" => f_data = <<2, 0>>

\* the start command on id 0x3A, and a frame whose sum carries into the
\* high byte
C11_Witness ==
    /\ fpc = "sd_done"
    /\ \/ f_ID = 58 /\ gCmd = "start" /\ gHanded = <<0, 85, 186, 2, 0, 67>>
       \/ gCmd = "any" /\ ID_word + SumBytes(f_data) > 255
----------------------------------------------------------------------------
(* Error indication *)

PulseOf(bit) == IF bit THEN <<TRUE, 500>> ELSE <<TRUE, 250>>

Pause == <<FALSE, 350>>

BlinkCode(code) ==
    << PulseOf((code \div 4) % 2 = 1), Pause,
       PulseOf((code \div 2) % 2 = 1), Pause,
       PulseOf(code % 2 = 1), Pause >>

(* C12: for every error code in 1..5, show_error drives the indicator
   through exactly three pulses taken from the code's 3 bits, most
   significant first: on for 500 ms if the bit is 1 and 250 ms if it is 0,
   each followed by 350 ms off, and leaves the indicator off at return; code
   4 gives long, short, short; LIN_wakeup is called, before the first pulse,
   if and only if the rail is absent at entry. *)
C12_BlinkSequence ==
    /\ epc \notin {"idle", "wake"} => (gWoke <=> ~gRailSeen)
    /\ epc = "wake" => (~gRailSeen /\ ~gWoke /\ gBlinks = <<>> /\ ~LED_OV)
    /\ epc # "idle" =>
         /\ gCode \in 1..5
         /\ Len(gBlinks) <= 6
         /\ gBlinks = SubSeq(BlinkCode(gCode), 1, Len(gBlinks))
    /\ epc = "done" =>
         /\ gBlinks = BlinkCode(gCode)
         /\ ~LED_OV
         /\ gCode = 4 => gBlinks = << <<TRUE, 500>>, <<FALSE, 350>>,
                                      <<TRUE, 250>>, <<FALSE, 350>>,
                                      <<TRUE, 250>>, <<FALSE, 350>> >>
    /\ epc = "idle" => ~LED_OV

\* code 4 shown after a wake-up
C12_Witness ==
    /\ epc = "done" /\ gCode = 4 /\ gWoke /\ ~gRailSeen
    /\ Len(gBlinks) = 6 /\ gBlinks[1][2] = 500 /\ gBlinks[3][2] = 250

----------------------------------------------------------------------------
(* Response collection *)

MinOf(a, b) == IF a < b THEN a ELSE b

C14_State ==
    /\ ~gOverrun
    /\ read_bytes <= 9
    /\ read_bytes = MinOf(Len(gDeq), 9)
    /\ ~(rpc = "rr_read" /\ upc = "read_chk" /\ buffered_rcv = 0)
    /\ rpc # "idle" =>
         /\ \A k \in 1..read_bytes : resp_buff[k - 1] = gDeq[k]
         /\ \A k \in 1..(Len(gDeq) - 1) : gDeq[k] < gDeq[k + 1]
    /\ rpc = "rr_done" =>
         /\ r_ret = 0 <=> gEmptyPolls = 5
         /\ gEmptyPolls = 5 => gDeq = <<>>
         /\ r_ret # 0 => r_ret \in 1..9 /\ r_ret = read_bytes

C14_Step ==
    /\ (rpc = "rr_while" /\ rpc' = "rr_done") => buffered_rcv = 0
    /\ (rpc = "rr_while" /\ buffered_rcv # 0) => rpc' # "rr_done"
    /\ (rpc = "rr_poll" /\ rpc' = "rr_while") => buffered_rcv # 0

(* C14: LIN_read_response returns 0 if and only if the receive buffer was
   empty at each of its 5 first-byte polls; otherwise it dequeues until it
   sees the receive buffer empty, stores the first (at most 9) dequeued
   bytes in arrival order at dest[0..], never writes past dest[8], and
   returns the number of bytes stored, between 1 and 9; it never calls
   UART_read on an empty receive buffer. *)
C14_ReadResponse == []C14_State /\ [][C14_Step]_vars

\* ten bytes dequeued in one call: nine stored, the tenth dropped
C14_Witness ==
    /\ rpc = "rr_done" /\ r_ret = 9 /\ Len(gDeq) = 10
    /\ resp_buff[8] = gDeq[9]

----------------------------------------------------------------------------
(* Load monitoring in the control loop *)

(* C15: in drawn-power-detect mode the 200 ms inrush delay is inserted only
   on the first load check after a no-load period or boot: on a check that
   follows an iteration whose check found load it is not inserted, also
   when no_load_counter is 0. *)
C15_InrushDelayOnlyOnFirstCheck ==
    (mpc = "load" /\ gDelayed) => ~gLoadSeen

AbsDiff(a, b) == IF a < b THEN b - a ELSE a - b

C16_State ==
    /\ no_load_counter \in 0..60
    /\ AbsDiff(no_load_counter, gTop) <= 1

C16_Step ==
    /\ no_load_counter' > no_load_counter =>
         /\ no_load_counter' = no_load_counter + 1
         /\ mpc = "nl_short" /\ no_load_counter < 60
    /\ no_load_counter' < no_load_counter =>
         /\ no_load_counter' = no_load_counter - 1
         /\ mpc = "load" /\ mpc' = "loop"
         /\ no_load_counter > 0 /\ prev_was_load
    /\ mpc \in {"lb_stop", "lb_count", "lb_wait", "start_failed",
                "unplugged", "sleep"} => no_load_counter' = gTop
    /\ (mpc = "load" /\ mpc' = "loop" /\ ~prev_was_load)
          => no_load_counter' = no_load_counter

(* C16: no_load_counter stays within 0..60 and changes by at most 1 per
   loop iteration: it is incremented only on a no-load check made while it
   is below 60, decremented only on a load-present check made while it is
   above 0 and prev_was_load was already true, and left unchanged by every
   other iteration. *)
C16_NoLoadCounterRange == []C16_State /\ [][C16_Step]_vars

\* the counter at its maximum, and a decrement
C16_Witness ==
    /\ mpc = "loop" /\ no_load_counter = 59 /\ gTop = 60 /\ prev_was_load

(* C17 as stated: below 60 the no-load branch soft-stops and increments,
   and re-issues LIN_wakeup exactly when the incremented counter is a
   multiple of 20; from 60 on it hard-stops and never issues the wake-up. *)
C17_WakeupEveryTwentieth ==
    mpc = "nl_wakeup" => no_load_counter % 20 = 0

C17_State ==
    /\ mpc \in {"nl_keepalive", "nl_wakeup"} =>
         gStop = "soft" /\ no_load_counter = gTop + 1 /\ gTop < 60
    /\ mpc = "nl_wakeup" => no_load_counter \in 20..60
    /\ mpc = "nl_short" => no_load_counter < 60
    /\ mpc = "nl_long" => no_load_counter = 60

C17_Step ==
    /\ mpc = "nl_short" => mpc' = "nl_keepalive"
    /\ mpc = "nl_keepalive" => (mpc' = "nl_wakeup" <=> no_load_counter >= 20)
    /\ mpc = "nl_long" => (mpc' = "loop" /\ gStop' = "hard")

(* C17, amended: below 60 the no-load branch soft-stops and increments
   no_load_counter, and re-issues LIN_wakeup with the longer wait exactly
   on the no-load checks whose incremented counter is at least 20 (the 20th
   and every later one), not on those below 20; from 60 on it hard-stops
   and never issues that wake-up. *)
C17_WakeupFromTwentieth == []C17_State /\ [][C17_Step]_vars

\* a wake-up at a counter that is not a multiple of 20, and one at 60
C17_Witness ==
    /\ mpc = "nl_wakeup" /\ gStop = "soft"
    /\ no_load_counter \in {21, 60}


----------------------------------------------------------------------------
(* Termination *)

(* C19: whenever stop_inverter or enough_power_drawn accepts a status
   response on the tests of its marker (byte 3) and status flags, those
   bytes were received in the response to the current poll, that is
   LIN_read_response returned at least 4: a byte left in resp_buff by an
   earlier, longer response is never used to accept the current one. *)
C19_NoStaleMarkerAccepted == ~gStale

(* C13: every operation the control loop invokes terminates after a
   bounded number of loop iterations for every behaviour of the peer,
   including a peer that keeps transmitting bytes continuously; stated for
   LIN_read_response, which start_inverter, stop_inverter and
   enough_power_drawn call at every poll: a call that has begun returns. *)
C13_ReadResponseReturns == (rpc = "rr_poll") ~> (rpc = "rr_done")

----------------------------------------------------------------------------
(* Sleep and wake-up *)

AfterUnpluggedCheck ==
    {"z_stop", "z_stop_tx", "z_stop_delay", "z_dis", "z_idle", "z_asleep"}

(* C18: no plug wake-up is lost: if the plug is inserted at any time after
   the loop's plug check returned unplugged, the call of stop_inverter(true)
   and the serial-interrupt disable before the sleep included, and stays
   inserted, the main context does not stay asleep forever: it re-enables
   the serial interrupt, iterates and calls start_inverter. *)
C18_NoLostWakeup ==
    (PLUG /\ zpc \in AfterUnpluggedCheck) ~> (~PLUG \/ zpc = "z_start")

(* C20: the transmitter never gets stuck: whenever tr_armed is true a
   transmit-complete interrupt is pending or a byte is on the wire, and
   tr_armed eventually returns to false, also across the disable, sleep
   and re-enable of the serial interrupt, whose re-enable clears TI. *)
C20_TransmitterNeverStuck ==
    /\ [](tr_armed => (TI \/ txShift # NoByte))
    /\ tr_armed ~> ~tr_armed

(* the transmitter is busy again after a sleep that followed transmissions *)
C20_Witness ==
    gWoken /\ gTxBefore /\ tr_armed /\ txShift # NoByte /\ buffered_tr > 0

====
